---------------------------- MODULE Spec2Model ----------------------------
(***************************************************************************)
(* Model of scripts/create_tokens.py: the token lifecycle client           *)
(* (create_token, search_tokens, list_tokens, delete_token) and the batch  *)
(* orchestrator (batch_create, batch_delete) of class TokenCreator, the    *)
(* account sources, merge_waf_cookies and the driver main.                 *)
(*                                                                         *)
(* Python strings are sequences of one-character strings, so that          *)
(* startswith, "in" and concatenation are computed and not assumed.        *)
(* JSON values are tagged records; a key a JSON object does not hold is    *)
(* the value Absent.  The remote service is the environment: each call     *)
(* draws its HTTP response from the set of responses the service can give. *)
(***************************************************************************)
EXTENDS Integers, Sequences, FiniteSets, TLC

VARIABLES
    pc,             \* position of the running handler
    remote,         \* the account's tokens on the remote service
    next_id,        \* the id the remote service gives the next token
    remote0,        \* history: remote when the handler was invoked
    calls,          \* history: the API calls and sleeps issued, in order
    resp,           \* client call under study: the HTTP response
    result,         \* client call under study: the value returned
    prefix,         \* batch_create(prefix=)
    count,          \* batch_create(count=)
    i,              \* batch_create / batch_delete: the loop index
    created_names,  \* batch_create: names whose create succeeded
    key_map,        \* batch_create: what search_tokens returned
    tokens,         \* batch_create: the records returned
    created_tokens, \* self.created_tokens
    snap,           \* history: remote and create calls at the crash
    del_prefix,     \* batch_delete(prefix=)
    keyword,        \* batch_delete(keyword=)
    token_ids,      \* batch_delete(token_ids=)
    dry_run,        \* batch_delete(dry_run=)
    list_mode,      \* environment: how the list endpoint pages
    page,           \* batch_delete: the page requested next
    all_tokens,     \* batch_delete: tokens accumulated by the paging loop
    last_len,       \* history: length of the page fetched last (-1: none)
    honest,         \* history: every page so far was served as stored
    turn,           \* history: the parity of the number of page requests
    to_delete,      \* batch_delete: the candidates
    deleted_ids,    \* batch_delete: ids whose delete succeeded
    returned,       \* batch_delete: the value returned
    args,           \* main: the command line options
    source,         \* environment: the cookie file, or the answer of the cookie API
    accounts,       \* main: the account records loaded
    idx,            \* main: the index of the account in the loop (0: not in the loop)
    waf_cookies,    \* main: the barrier cookies
    token_config,   \* main: the token configuration built from the options
    self_token_config, \* self.token_config, what the TokenCreator was constructed with
    cookie,         \* the cookie argument of the running batch
    user_id,        \* the user_id argument of the running batch
    all_deleted,    \* main: what the batch_delete invocations returned
    output,         \* main: the files written
    batches,        \* history: what each batch_create invoked by main returned
    HEADERS         \* TokenCreator.HEADERS, the header template the requests share

vars == <<pc, remote, next_id, remote0, calls, resp, result, prefix, count, i,
          created_names, key_map, tokens, created_tokens, snap, del_prefix,
          keyword, token_ids, dry_run, list_mode, page, all_tokens, last_len,
          honest, turn, to_delete, deleted_ids, returned, args, source, accounts,
          idx, waf_cookies, token_config, self_token_config, cookie, user_id,
          all_deleted, output, batches, HEADERS>>

createVars == <<prefix, count, created_names, key_map, tokens, created_tokens, snap>>
deleteVars == <<del_prefix, keyword, token_ids, dry_run, list_mode, page,
                all_tokens, last_len, honest, turn, to_delete, deleted_ids, returned>>
clientVars == <<resp, result>>
mainVars == <<args, source, accounts, idx, waf_cookies, token_config, self_token_config,
              cookie, user_id, all_deleted, output, batches>>

-----------------------------------------------------------------------------
(* Bounds of the model *)

MaxCount == 2          \* batch_create is invoked with count in 0..MaxCount
NumSuffixes == 2       \* outcomes of random.choices the model draws from
MaxFullPages == 1      \* the remote store holds up to MaxFullPages full pages (+1 token)
MaxFailId == 2         \* a delete call can fail only for ids up to MaxFailId
MaxCookies == 2        \* a cookie string given to merge_waf_cookies holds up to MaxCookies pairs

(* Program constants *)

PageSize == 100        \* batch_delete: size=100 and len(tokens) < 100
SuffixLen == 8         \* random.choices(..., k=8)
HttpOK == 200          \* resp.status_code == 200
DefaultQuota == 500000 \* --quota default=500000, and remain_quota's default in create_token
NeverExpires == -1     \* "expired_time": -1
DefaultCount == 1      \* --count default=1

-----------------------------------------------------------------------------
(* Python values *)

\* None, for an optional string argument (no Python string equals it)
None == <<"None">>
\* None, for the optional list of ids
NoIds == <<-1>>

\* Python truthiness of an optional string: None and "" are falsy
Given(x) == x # None /\ x # <<>>

\* Python truthiness of the optional list of ids: None and [] are falsy
GivenIds(x) == x # NoIds /\ x # <<>>

\* str.startswith
StartsWith(s, p) == Len(p) <= Len(s) /\ SubSeq(s, 1, Len(p)) = p

\* the "in" operator on strings
Contains(s, k) == \E o \in 0..(Len(s) - Len(k)) : SubSeq(s, o + 1, o + Len(k)) = k

\* string.ascii_lowercase + string.digits
Population == <<"a","b","c","d","e","f","g","h","i","j","k","l","m",
                "n","o","p","q","r","s","t","u","v","w","x","y","z",
                "0","1","2","3","4","5","6","7","8","9">>

Digits == <<"0","1","2","3","4","5","6","7","8","9">>

RECURSIVE Decimal(_)
\* str(n) for n >= 0
Decimal(n) == IF n < 10 THEN <<Digits[n + 1]>>
              ELSE Decimal(n \div 10) \o <<Digits[(n % 10) + 1]>>

\* the set of the elements of a sequence
Range(s) == {s[k] : k \in DOMAIN s}

\* the characters str.strip() removes
Whitespace == {" "}

RECURSIVE Strip(_)
\* str.strip()
Strip(s) ==
    IF s = <<>> THEN s
    ELSE IF s[1] \in Whitespace THEN Strip(SubSeq(s, 2, Len(s)))
    ELSE IF s[Len(s)] \in Whitespace THEN Strip(SubSeq(s, 1, Len(s) - 1))
    ELSE s

\* c in s, for a character c
HasChar(s, c) == \E k \in DOMAIN s : s[k] = c

\* s.index(c), from 1; only where c is in s
IndexOf(s, c) == CHOOSE k \in DOMAIN s : s[k] = c /\ \A j \in 1..(k - 1) : s[j] # c

RECURSIVE Split(_, _)
\* s.split(c): the parts between the occurrences of c (one part, s, when there is none)
Split(s, c) ==
    IF ~HasChar(s, c) THEN <<s>>
    ELSE <<SubSeq(s, 1, IndexOf(s, c) - 1)>> \o Split(SubSeq(s, IndexOf(s, c) + 1, Len(s)), c)

\* s.split(c, 1) of a string that holds c: what is before the first c, and what is after
SplitFirst(s, c) == <<SubSeq(s, 1, IndexOf(s, c) - 1), SubSeq(s, IndexOf(s, c) + 1, Len(s))>>

RECURSIVE Join(_, _)
\* sep.join(parts)
Join(sep, parts) ==
    IF parts = <<>> THEN <<>>
    ELSE IF Len(parts) = 1 THEN parts[1]
    ELSE parts[1] \o sep \o Join(sep, SubSeq(parts, 2, Len(parts)))

-----------------------------------------------------------------------------
(* JSON values *)

Absent == [t |-> "absent"]
JNull == [t |-> "null"]
JBool(b) == [t |-> "bool", b |-> b]
JStr(s) == [t |-> "str", s |-> s]
JObj(o) == [t |-> "obj", o |-> o]

\* bool(v) for a JSON value (an absent key was replaced by its default before)
Truthy(v) == CASE v.t = "bool" -> v.b
               [] v.t = "str" -> v.s # <<>>
               [] v.t = "obj" -> TRUE
               [] OTHER -> FALSE

\* dict.get(key, default)
Get(obj, key, default) == IF obj[key].t = "absent" THEN default ELSE obj[key]

\* a or b
Or(a, b) == IF Truthy(a) THEN a ELSE b

-----------------------------------------------------------------------------
(* The HTTP responses of the remote service (the environment) *)

Statuses == {HttpOK, 500}

SecretVals == {Absent, JNull, JStr(<<"k">>)}
TokenVals == {Absent, JStr(<<"k">>)}

\* the {} that data.get("data", {}) defaults to
EmptyObj == JObj([key |-> Absent, token |-> Absent])

\* the JSON bodies POST /api/token/ can answer with
CreateBodies ==
    [success : {Absent, JBool(TRUE), JBool(FALSE)},
     message : {Absent, JStr(<<"m">>)},
     data    : {Absent, JNull} \cup {JObj(o) : o \in [key : SecretVals, token : TokenVals]},
     key     : SecretVals,
     token   : TokenVals]

TransportError == [transport |-> "error"]

\* a response whose text is not a JSON document (an HTML page of the barrier)
NotJson(s) == [transport |-> "ok", status |-> s, json |-> FALSE]

CreateResponses ==
    {TransportError}
    \cup {NotJson(s) : s \in Statuses}
    \cup {[transport |-> "ok", status |-> s, json |-> TRUE, body |-> b] :
             s \in Statuses, b \in CreateBodies}

\* the service has created the token exactly when it answers 200 with success: true
Served(r) == /\ r.transport = "ok"
             /\ r.json
             /\ r.status = HttpOK
             /\ r.body.success = JBool(TRUE)

-----------------------------------------------------------------------------
(* merge_waf_cookies.  A dict is the sequence of its items, in insertion order. *)

\* WAF_REQUIRED_COOKIES
WAF_REQUIRED_COOKIES ==
    << <<"a", "c", "w", "_", "t", "c">>,
       <<"c", "d", "n", "_", "s", "e", "c", "_", "t", "c">>,
       <<"a", "c", "w", "_", "s", "c", "_", "_", "v", "2">> >>

DictKeys(d) == {d[j].k : j \in DOMAIN d}

\* DictSet that moves a key the dict already holds to the end
DictSet_last(d, k, v) ==
    Append(SelectSeq(d, LAMBDA item : item.k # k), [k |-> k, v |-> v])

\* d[k] = v: a key the dict holds keeps its place and gets the value, a new key goes last
DictSet(d, k, v) ==
    IF k \in DictKeys(d)
    THEN [j \in DOMAIN d |-> IF d[j].k = k THEN [k |-> k, v |-> v] ELSE d[j]]
    ELSE Append(d, [k |-> k, v |-> v])

RECURSIVE DictUpdate_keep(_, _)
\* dict.update in which a key the dict already holds keeps its old value
DictUpdate_keep(d, other) ==
    IF other = <<>> THEN d
    ELSE DictUpdate_keep(IF other[1].k \in DictKeys(d) THEN d ELSE Append(d, other[1]),
                         Tail(other))

RECURSIVE DictUpdate(_, _)
\* existing.update(waf_cookies)
DictUpdate(d, other) ==
    IF other = <<>> THEN d
    ELSE DictUpdate(DictSet(d, other[1].k, other[1].v), Tail(other))

RECURSIVE ParseParts(_)
\* the loop over original_cookie.split(";"): strip the part, and with a "=" in it
\* split at the first "=" and store the stripped key and value
ParseParts(parts) ==
    IF parts = <<>> THEN <<>>
    ELSE LET existing == ParseParts(SubSeq(parts, 1, Len(parts) - 1))
             part == Strip(parts[Len(parts)])
         IN IF HasChar(part, "=")
            THEN DictSet(existing, Strip(SplitFirst(part, "=")[1]),
                         Strip(SplitFirst(part, "=")[2]))
            ELSE existing

\* RenderDict that joins with ","
RenderDict_comma(d) == Join(<<",">>, [j \in DOMAIN d |-> d[j].k \o <<"=">> \o d[j].v])

\* "; ".join(f"{k}={v}" for k, v in existing.items())
RenderDict(d) == Join(<<";", " ">>, [j \in DOMAIN d |-> d[j].k \o <<"=">> \o d[j].v])

\* merge_waf_cookies(original_cookie, waf_cookies)
merge_waf_cookies(original_cookie, waf) ==
    IF waf = <<>> THEN original_cookie
    ELSE LET existing == IF original_cookie # <<>>
                         THEN ParseParts(Split(original_cookie, ";"))
                         ELSE <<>>
         IN RenderDict(DictUpdate(existing, waf))

-----------------------------------------------------------------------------
(* TokenCreator: the lifecycle client.  A call's outcome is either a value *)
(* returned or an exception raised past the call.                          *)

Return(v) == [raised |-> FALSE, ret |-> v]
Raise(e) == [raised |-> TRUE, exc |-> e]

\* create_token, the statements inside its try
create_token_body(r) ==
    IF r.transport = "error" THEN Raise("ConnectionError")
    ELSE IF ~r.json THEN Raise("JSONDecodeError")
    ELSE LET data == r.body IN
         IF r.status = HttpOK /\ Truthy(Get(data, "success", JBool(FALSE)))
         THEN LET d == Get(data, "data", EmptyObj) IN
              IF d.t # "obj" THEN Raise("AttributeError")
              ELSE Return([success |-> TRUE,
                           key |-> Or(Or(Or(Get(d.o, "key", JStr(<<>>)),
                                            Get(data, "key", JStr(<<>>))),
                                         Get(d.o, "token", JStr(<<>>))),
                                      Get(data, "token", JStr(<<>>)))])
         ELSE Return([success |-> FALSE,
                      error |-> IF data.message = Absent THEN "raw body" ELSE "message"])

\* create_token without its except clause
create_token_no_except(r) == create_token_body(r)

\* create_token: what the try raises is returned as a failure
create_token(r) ==
    LET b == create_token_body(r) IN
    IF b.raised THEN Return([success |-> FALSE, error |-> b.exc]) ELSE b

\* no tag at all
KeyTag_none == <<>>

\* the "sk-" prepended to every key
KeyTag == <<"s", "k", "-">>

\* the empty dict
EmptyMap == [n \in {} |-> <<>>]

RECURSIVE DictOf(_)
\* search_tokens' dict comprehension: of two items with one name the later one stays
DictOf(items) ==
    IF items = <<>> THEN EmptyMap
    ELSE LET rest == DictOf(SubSeq(items, 1, Len(items) - 1))
             t == items[Len(items)]
         IN IF t.name # <<>> /\ t.key # <<>>
            THEN [n \in DOMAIN rest \cup {t.name} |->
                     IF n = t.name THEN KeyTag \o t.key ELSE rest[n]]
            ELSE rest

\* dict.get(name, "") on the mapping search_tokens returned
KeyOf(map, name) == IF name \in DOMAIN map THEN map[name] ELSE <<>>

\* search_tokens, the statements inside its try; the return {} after it is Return(EmptyMap)
search_tokens_body(r) ==
    IF r.transport = "error" THEN Raise("ConnectionError")
    ELSE IF r.status # HttpOK THEN Return(EmptyMap)
    ELSE IF ~r.json THEN Raise("JSONDecodeError")
    ELSE IF ~Truthy(Get(r.body, "success", JNull)) THEN Return(EmptyMap)
    ELSE LET tokens_data == Get(r.body, "data", [t |-> "list", items |-> <<>>]) IN
         IF tokens_data.t # "list" THEN Raise("TypeError")
         ELSE Return(DictOf(tokens_data.items))

\* search_tokens: what the try raises is printed, and {} is returned
search_tokens(r) ==
    LET b == search_tokens_body(r) IN
    IF b.raised THEN Return(EmptyMap) ELSE b

\* list_tokens, the statements inside its try; the return [] after it is Return(<<>>)
list_tokens_body(r) ==
    IF r.transport = "error" THEN Raise("ConnectionError")
    ELSE IF r.status # HttpOK THEN Return(<<>>)
    ELSE IF ~r.json THEN Raise("JSONDecodeError")
    ELSE IF ~Truthy(Get(r.body, "success", JNull)) THEN Return(<<>>)
    ELSE Return(Get(r.body, "data", [t |-> "list", items |-> <<>>]).items)

\* list_tokens: what the try raises is printed, and [] is returned
list_tokens(r) ==
    LET b == list_tokens_body(r) IN
    IF b.raised THEN Return(<<>>) ELSE b

\* delete_token, the statements inside its try
delete_token_body(r, token_id) ==
    IF r.transport = "error" THEN Raise("ConnectionError")
    ELSE IF r.brace /\ ~r.json THEN Raise("JSONDecodeError")
    ELSE LET data == IF r.brace THEN r.body
                     ELSE [success |-> JBool(FALSE), message |-> Absent]
         IN IF r.status = HttpOK /\ Truthy(Get(data, "success", JNull))
            THEN Return([success |-> TRUE, id |-> token_id])
            ELSE Return([success |-> FALSE, id |-> token_id,
                         error |-> IF data.message = Absent THEN "raw body" ELSE "message"])

\* delete_token reporting success whatever the service answered
delete_token_optimistic(r, token_id) == Return([success |-> TRUE, id |-> token_id])

\* delete_token: what the try raises is returned as a failure
delete_token(r, token_id) ==
    LET b == delete_token_body(r, token_id) IN
    IF b.raised THEN Return([success |-> FALSE, id |-> token_id, error |-> b.exc]) ELSE b

-----------------------------------------------------------------------------
(* The remote service behind search, list and delete *)

\* the tokens GET /api/token/search?keyword= matches: the name holds the keyword
Matching(store, kw) == SelectSeq(store, LAMBDA t : Contains(t.name, kw))

Reverse(s) == [k \in 1..Len(s) |-> s[Len(s) + 1 - k]]

Items(s) == [k \in 1..Len(s) |-> [name |-> s[k].name, key |-> s[k].key]]

\* what a successful search shows of the matching tokens: all of them, in either
\* order; none yet or all but the newest (propagation delay); all with the key withheld
SearchViews == {"all", "all_reversed", "none", "all_but_newest", "no_keys"}

View(m, v) ==
    CASE v = "all" -> Items(m)
      [] v = "all_reversed" -> Items(Reverse(m))
      [] v = "none" -> <<>>
      [] v = "all_but_newest" -> Items(SubSeq(m, 1, Len(m) - 1))
      [] v = "no_keys" -> [k \in 1..Len(m) |-> [name |-> m[k].name, key |-> <<>>]]

JsonOK(b) == [transport |-> "ok", status |-> HttpOK, json |-> TRUE, body |-> b]

\* the responses GET /api/token/search can give, each with the view it shows
SearchResponses(store, kw) ==
    {[view |-> "fail", r |-> x] :
        x \in {TransportError, NotJson(HttpOK),
               [transport |-> "ok", status |-> 500, json |-> TRUE,
                body |-> [success |-> JBool(FALSE), data |-> Absent]],
               JsonOK([success |-> JBool(FALSE), data |-> Absent]),
               JsonOK([success |-> Absent, data |-> Absent]),
               JsonOK([success |-> JBool(TRUE), data |-> JNull])}}
    \cup {[view |-> v,
           r |-> JsonOK([success |-> JBool(TRUE),
                         data |-> [t |-> "list", items |-> View(Matching(store, kw), v)]])] :
            v \in SearchViews}

-----------------------------------------------------------------------------
(* The request body of create_token.  A dict with string keys is a function on the *)
(* keys it holds.                                                                  *)

\* dict.get(key, default)
DictGet(d, key, default) == IF key \in DOMAIN d THEN d[key] ELSE default

\* d[key] = value
DictPut(d, key, value) == [f \in DOMAIN d \cup {key} |-> IF f = key THEN value ELSE d[f]]

\* the payload of create_token, from self.token_config
Payload(token_name, cfg) ==
    [name |-> token_name,
     remain_quota |-> DictGet(cfg, "remain_quota", DefaultQuota),
     expired_time |-> DictGet(cfg, "expired_time", NeverExpires),
     unlimited_quota |-> DictGet(cfg, "unlimited_quota", TRUE),
     model_limits_enabled |-> DictGet(cfg, "model_limits_enabled", FALSE),
     model_limits |-> DictGet(cfg, "model_limits", <<>>),
     allow_ips |-> DictGet(cfg, "allow_ips", <<>>),
     group |-> DictGet(cfg, "group", <<>>)]

-----------------------------------------------------------------------------
(* The request headers.  HEADERS is a class attribute: one dict shared by every   *)
(* call of every account.  A call works on headers, which the dict's copy()       *)
(* makes a dict of its own.                                                        *)

\* the HEADERS literal of class TokenCreator
HeaderItems ==
    << <<"accept", "application/json, text/plain, */*">>,
       <<"accept-language", "zh-CN,zh;q=0.9">>,
       <<"cache-control", "no-store">>,
       <<"content-type", "application/json">>,
       <<"dnt", "1">>,
       <<"origin", "https://anyrouter.top">>,
       <<"pragma", "no-cache">>,
       <<"referer", "https://anyrouter.top/console/token">>,
       <<"sec-ch-ua", "\"Not A(Brand\";v=\"8\", \"Chromium\";v=\"132\", \"Google Chrome\";v=\"132\"">>,
       <<"sec-ch-ua-mobile", "?0">>,
       <<"sec-ch-ua-platform", "\"Windows\"">>,
       <<"sec-fetch-dest", "empty">>,
       <<"sec-fetch-mode", "cors">>,
       <<"sec-fetch-site", "same-origin">>,
       <<"user-agent", "Mozilla/5.0 (Windows NT 10.0; Win64; x64) AppleWebKit/537.36 (KHTML, like Gecko) Chrome/132.0.0.0 Safari/537.36">> >>

\* the dict a literal of these items makes; a header value is a [text |-> ...] record
HeaderTemplate ==
    [h \in {HeaderItems[j][1] : j \in DOMAIN HeaderItems} |->
        [text |-> (CHOOSE item \in Range(HeaderItems) : item[1] = h)[2]]]

\* d.pop(key, None)
DictPop(d, key) == [f \in DOMAIN d \ {key} |-> d[f]]

\* SetHeaders that keeps a cookie and a new-api-user the dict already holds
SetHeaders_setdefault(d, ck, uid, op) ==
    LET h1 == IF "cookie" \in DOMAIN d THEN d ELSE DictPut(d, "cookie", [text |-> ck])
        h2 == IF "new-api-user" \in DOMAIN h1 THEN h1
              ELSE DictPut(h1, "new-api-user", [text |-> uid])
    IN IF op = "create" THEN h2 ELSE DictPop(h2, "content-type")

\* the headers of a request: cookie and new-api-user are set, and all but create
\* drop content-type
SetHeaders(d, ck, uid, op) ==
    LET h1 == DictPut(d, "cookie", [text |-> ck])
        h2 == DictPut(h1, "new-api-user", [text |-> uid])
    IN IF op = "create" THEN h2 ELSE DictPop(h2, "content-type")

\* request_headers that writes into the shared dict and keeps the cookie and the
\* new-api-user it finds there: the session of the first request sticks
request_headers_sticky(shared, ck, uid, op) ==
    [HEADERS |-> SetHeaders_setdefault(shared, ck, uid, op),
     headers |-> SetHeaders_setdefault(shared, ck, uid, op)]

\* request_headers with headers = self.HEADERS: the call writes into the shared dict
request_headers_shared(shared, ck, uid, op) ==
    [HEADERS |-> SetHeaders(shared, ck, uid, op),
     headers |-> SetHeaders(shared, ck, uid, op)]

\* headers = self.HEADERS.copy() and the writes that follow: what the shared dict
\* holds afterwards, and the headers the request is sent with
request_headers(shared, ck, uid, op) ==
    [HEADERS |-> shared,
     headers |-> SetHeaders(shared, ck, uid, op)]

\* extend that replaces what the list holds
extend_replace(list, items) == items

\* list.extend(items)
extend(list, items) == list \o items

\* waf_after_merge with the update applied to the argument: waf_cookies.update(existing)
waf_after_merge_updated(original_cookie, waf) ==
    IF waf = <<>> THEN waf
    ELSE DictUpdate(waf, IF original_cookie # <<>>
                         THEN ParseParts(Split(original_cookie, ";"))
                         ELSE <<>>)

\* what the dict passed as waf_cookies holds when merge_waf_cookies returns: the
\* function writes into existing, a dict of its own, and only reads its argument
waf_after_merge(original_cookie, waf) == waf

-----------------------------------------------------------------------------
(* batch_create *)

\* one outcome of "".join(random.choices(string.ascii_lowercase + string.digits, k=8))
Suffix(d) == [j \in 1..SuffixLen |-> Population[((11 * d + 7 * j) % Len(Population)) + 1]]

\* the outcomes of random.choices the model draws from; a draw may repeat an earlier one
RandomChoices == {Suffix(d) : d \in 1..NumSuffixes}

\* token_name with the count == 1 case lost
token_name_prefixed(cnt, pfx, random_str) == pfx \o <<"_">> \o random_str

\* the name of the token to create: the literal "cc" when count is 1
token_name(cnt, pfx, random_str) ==
    IF cnt = 1 THEN <<"c", "c">> ELSE pfx \o <<"_">> \o random_str

\* search_keyword with the count == 1 case lost
search_keyword_prefix(cnt, pfx) == pfx

\* the keyword of the search that resolves the keys
search_keyword(cnt, pfx) == IF cnt = 1 THEN <<"c", "c">> ELSE pfx

\* the secret the remote service gives the token with this id
RemoteKey(id) == <<"k">> \o Decimal(id)

Prefixes == {<<"t", "k">>, <<"c", "c">>}

\* what the account holds before the run: nothing, a "cc" left by an earlier
\* single-token run, or a token of an earlier batch with prefix "tk"
CreateStores ==
    {<<>>,
     <<[id |-> 1, name |-> <<"c", "c">>, key |-> RemoteKey(1)]>>,
     <<[id |-> 1, name |-> <<"t", "k", "_">> \o Suffix(1), key |-> RemoteKey(1)]>>}

\* the calls of the running invocation, by kind
CreateCalls == SelectSeq(calls, LAMBDA c : c.op = "create" /\ c.acct = idx)
SearchCalls == SelectSeq(calls, LAMBDA c : c.op = "search" /\ c.acct = idx)
DeleteCalls == SelectSeq(calls, LAMBDA c : c.op = "delete" /\ c.acct = idx)
ListCalls == SelectSeq(calls, LAMBDA c : c.op = "list" /\ c.acct = idx)

\* a sleep after every iteration, the last included
Pace_always(k, n) == <<[op |-> "sleep", acct |-> idx]>>

\* the sleep between two iterations, not after the last
Pace(k, n) == IF k < n THEN <<[op |-> "sleep", acct |-> idx]>> ELSE <<>>

\* Records that drops a name the search did not return
Records_found_only(names, map) ==
    LET found == SelectSeq(names, LAMBDA n : n \in DOMAIN map)
    IN [k \in 1..Len(found) |-> [name |-> found[k], key |-> map[found[k]],
                                  user_id |-> user_id]]

\* the records built from the created names and the mapping search returned
Records(names, map) ==
    [k \in 1..Len(names) |-> [name |-> names[k], key |-> KeyOf(map, names[k]),
                              user_id |-> user_id]]

\* the position after an iteration of the create loop
AfterCreate(k, n) == IF k < n THEN "create_loop" ELSE "resolve"

\* one iteration of the create loop: the name, the create call, its bookkeeping, the sleep
CreateStep ==
    /\ pc = "create_loop"
    /\ i <= count
    /\ LET sent == request_headers(HEADERS, cookie, user_id, "create")
       IN \E random_str \in RandomChoices, r \in CreateResponses :
         LET name == token_name(count, prefix, random_str)
             out == create_token(r)
             call == [op |-> "create", acct |-> idx, cookie |-> cookie,
                      user_id |-> user_id, name |-> name,
                      headers |-> sent.headers,
                      payload |-> Payload(name, self_token_config),
                      served |-> Served(r), ok |-> ~out.raised /\ out.ret.success]
         IN /\ HEADERS' = sent.HEADERS
            /\ remote' = IF Served(r)
                         THEN Append(remote, [id |-> next_id, name |-> name,
                                              key |-> RemoteKey(next_id)])
                         ELSE remote
            /\ next_id' = IF Served(r) THEN next_id + 1 ELSE next_id
            /\ IF out.raised
               THEN /\ pc' = "raised"
                    /\ calls' = Append(calls, call)
                    /\ UNCHANGED <<i, created_names>>
               ELSE /\ created_names' = IF out.ret.success
                                        THEN Append(created_names, name)
                                        ELSE created_names
                    /\ calls' = Append(calls, call) \o Pace(i, count)
                    /\ i' = i + 1
                    /\ pc' = AfterCreate(i, count)
    /\ UNCHANGED <<remote0, key_map, tokens, created_tokens, snap, prefix, count>>
    /\ UNCHANGED <<deleteVars, clientVars, mainVars>>

\* after the loop: one search if a create succeeded, then the records
Resolve ==
    /\ pc = "resolve"
    /\ IF created_names # <<>>
       THEN \E x \in SearchResponses(remote, search_keyword(count, prefix)) :
              LET out == search_tokens(x.r)
                  kw == search_keyword(count, prefix)
                  sent == request_headers(HEADERS, cookie, user_id, "search")
              IN IF out.raised
                 THEN /\ pc' = "raised"
                      /\ calls' = Append(calls, [op |-> "search", acct |-> idx,
                                                 cookie |-> cookie, user_id |-> user_id,
                                                 headers |-> sent.headers,
                                                 keyword |-> kw,
                                                 view |-> x.view, ret |-> EmptyMap])
                      /\ HEADERS' = sent.HEADERS
                      /\ UNCHANGED <<key_map, tokens, created_tokens>>
                 ELSE /\ key_map' = out.ret
                      /\ tokens' = Records(created_names, out.ret)
                      /\ created_tokens' = extend(created_tokens, tokens')
                      /\ calls' = Append(calls, [op |-> "search", acct |-> idx,
                                                 cookie |-> cookie, user_id |-> user_id,
                                                 headers |-> sent.headers,
                                                 keyword |-> kw,
                                                 view |-> x.view, ret |-> out.ret])
                      /\ HEADERS' = sent.HEADERS
                      /\ pc' = "done"
       ELSE /\ tokens' = <<>>
            /\ created_tokens' = extend(created_tokens, tokens')
            /\ pc' = "done"
            /\ UNCHANGED <<key_map, calls, HEADERS>>
    /\ UNCHANGED <<remote, next_id, remote0, i, created_names, snap, prefix, count>>
    /\ UNCHANGED <<deleteVars, clientVars, mainVars>>

\* the process dies after a create has succeeded and before the search (a batch_create
\* invoked on its own)
Crash ==
    /\ pc \in {"create_loop", "resolve"}
    /\ idx = 0
    /\ created_names # <<>>
    /\ pc' = "crashed"
    /\ snap' = [remote |-> remote, creates |-> Len(CreateCalls)]
    /\ UNCHANGED <<remote, next_id, remote0, calls, i, created_names, key_map, tokens,
                   created_tokens, prefix, count>>
    /\ UNCHANGED <<deleteVars, clientVars, mainVars, HEADERS>>

\* the rerun of search_tokens alone, with the keyword of the crashed run
Recover ==
    /\ pc = "crashed"
    /\ \E x \in SearchResponses(remote, search_keyword(count, prefix)) :
         LET out == search_tokens(x.r)
             sent == request_headers(HEADERS, cookie, user_id, "search")
         IN
         /\ key_map' = IF out.raised THEN EmptyMap ELSE out.ret
         /\ pc' = IF out.raised THEN "raised" ELSE "recovered"
         /\ calls' = Append(calls, [op |-> "search", acct |-> idx,
                                    cookie |-> cookie, user_id |-> user_id,
                                    headers |-> sent.headers,
                                    keyword |-> search_keyword(count, prefix),
                                    view |-> x.view, ret |-> key_map'])
         /\ HEADERS' = sent.HEADERS
    /\ UNCHANGED <<remote, next_id, remote0, i, created_names, tokens, created_tokens,
                   snap, prefix, count>>
    /\ UNCHANGED <<deleteVars, clientVars, mainVars>>

NoSnap == [remote |-> <<>>, creates |-> 0]

IdleCreate ==
    /\ prefix = None /\ count = 0 /\ created_names = <<>> /\ key_map = EmptyMap
    /\ tokens = <<>> /\ created_tokens = <<>> /\ snap = NoSnap

IdleDelete ==
    /\ del_prefix = None /\ keyword = None /\ token_ids = NoIds /\ dry_run = FALSE
    /\ list_mode = "paged" /\ page = 0 /\ all_tokens = <<>> /\ last_len = -1
    /\ honest = TRUE /\ turn = 0
    /\ to_delete = <<>> /\ deleted_ids = <<>> /\ returned = <<>>

IdleClient == resp = [op |-> "none"] /\ result = [op |-> "none"]

\* nothing was saved
NotWritten == [written |-> FALSE]

NoArgs == [given |-> FALSE]
NoSource == [kind |-> "none"]

\* no run of main
IdleMain ==
    /\ args = NoArgs /\ source = NoSource /\ accounts = <<>> /\ idx = 0
    /\ waf_cookies = <<>> /\ token_config = EmptyMap
    /\ all_deleted = <<>> /\ output = NotWritten /\ batches = <<>>

\* the session of a batch invoked on its own
ExampleCookie == <<"s", "=", "1">>
ExampleUser == <<"1">>

\* what the TokenCreator of a batch_create invoked on its own was constructed with
CreatorConfigs == {EmptyMap, [remain_quota |-> 1000, group |-> <<"v">>]}

\* batch_create is invoked
InitCreate ==
    /\ count \in 0..MaxCount
    /\ prefix \in Prefixes
    /\ remote \in CreateStores
    /\ next_id = Len(remote) + 1
    /\ remote0 = remote
    /\ pc = AfterCreate(0, count)
    /\ i = 1
    /\ calls = <<>>
    /\ created_names = <<>> /\ key_map = EmptyMap /\ tokens = <<>>
    /\ created_tokens = <<>> /\ snap = NoSnap
    /\ self_token_config \in CreatorConfigs
    /\ self_token_config # EmptyMap => count = 1 /\ remote = <<>>
    /\ cookie = ExampleCookie /\ user_id = ExampleUser
    /\ HEADERS = HeaderTemplate
    /\ IdleDelete /\ IdleClient /\ IdleMain

-----------------------------------------------------------------------------
(* batch_delete *)

\* the names of the account's tokens: a_x, b_y, a_z, a_x, ...
ExampleName(id) ==
    CASE id % 3 = 1 -> <<"a", "_", "x">>
      [] id % 3 = 2 -> <<"b", "_", "y">>
      [] OTHER -> <<"a", "_", "z">>

\* an account holding n tokens, ids 1..n
Store(n) == [k \in 1..n |-> [id |-> k, name |-> ExampleName(k), key |-> RemoteKey(k)]]

SmallSizes == {0, 2, 3}

\* one token short of a page, and k full pages with and without one more token
BigSizes == {PageSize - 1} \cup {k * PageSize + d : k \in 1..MaxFullPages, d \in {0, 1}}

\* beyond this page the model no longer counts: the loop is past every page of the store
PageCap == MaxFullPages + 2

Min(a, b) == IF a < b THEN a ELSE b

\* GET /api/token/?p=&size= of a service that pages from p = 0
PageOf(store, p, size) == SubSeq(store, p * size + 1, Min((p + 1) * size, Len(store)))

\* the responses the list endpoint can give: a failure, a success without data, or a
\* page; a "stuck" endpoint ignores p and serves the first page again
ListResponses(store, p, size, mode) ==
    {[kind |-> "fail", r |-> x] :
        x \in {TransportError, NotJson(HttpOK),
               [transport |-> "ok", status |-> 500, json |-> TRUE,
                body |-> [success |-> JBool(FALSE), data |-> Absent]],
               JsonOK([success |-> JBool(FALSE), data |-> Absent]),
               JsonOK([success |-> JBool(TRUE), data |-> Absent])}}
    \cup {[kind |-> "page",
           r |-> JsonOK([success |-> JBool(TRUE),
                         data |-> [t |-> "list",
                                   items |-> PageOf(store, IF mode = "stuck" THEN 0 ELSE p,
                                                    size)]])]}

HasId(store, id) == \E k \in DOMAIN store : store[k].id = id

\* the service deletes the token exactly when it answers 200 with success: true
DeleteOK == [transport |-> "ok", status |-> HttpOK, brace |-> TRUE, json |-> TRUE,
             body |-> [success |-> JBool(TRUE), message |-> Absent]]

DeleteFailures ==
    {TransportError,
     [transport |-> "ok", status |-> HttpOK, brace |-> FALSE, json |-> FALSE],
     [transport |-> "ok", status |-> HttpOK, brace |-> TRUE, json |-> FALSE],
     [transport |-> "ok", status |-> 500, brace |-> TRUE, json |-> TRUE,
      body |-> [success |-> JBool(FALSE), message |-> JStr(<<"m">>)]],
     [transport |-> "ok", status |-> HttpOK, brace |-> TRUE, json |-> TRUE,
      body |-> [success |-> JBool(FALSE), message |-> JStr(<<"m">>)]],
     [transport |-> "ok", status |-> HttpOK, brace |-> TRUE, json |-> TRUE,
      body |-> [success |-> Absent, message |-> Absent]]}

\* the responses DELETE /api/token/{id} can give: it succeeds only for a token the
\* account holds, and fails for one it does not hold
DeleteResponses(store, id) ==
    (IF HasId(store, id) THEN {DeleteOK} ELSE {})
    \cup (IF ~HasId(store, id) \/ id <= MaxFailId THEN DeleteFailures ELSE {})

Without(store, id) == SelectSeq(store, LAMBDA t : t.id # id)

\* f"(ID: {tid})"
Placeholder(tid) == <<"(", "I", "D", ":", " ">> \o Decimal(tid) \o <<")">>

\* the filter with a prefix and a keyword both required when both are given
Selected_both(name, pfx, kw) ==
    IF Given(pfx) /\ Given(kw) THEN StartsWith(name, pfx) /\ Contains(name, kw)
    ELSE IF Given(pfx) THEN StartsWith(name, pfx)
    ELSE IF Given(kw) THEN Contains(name, kw)
    ELSE TRUE

\* the filter's if / elif / elif on one token
Selected(name, pfx, kw) ==
    IF Given(pfx) /\ StartsWith(name, pfx) THEN TRUE
    ELSE IF Given(kw) /\ Contains(name, kw) THEN TRUE
    ELSE IF ~Given(pfx) /\ ~Given(kw) THEN TRUE
    ELSE FALSE

\* the filter loop over all_tokens: the selected tokens, in their order
FilterTokens(toks, pfx, kw) ==
    SelectSeq(toks, LAMBDA token : Selected(token.name, pfx, kw))

\* the break on a short page lost: only an empty page ends the loop
LastPage_empty_only(toks) == toks = <<>>

\* the break also taken on a full page
LastPage_or_full(toks) == toks = <<>> \/ Len(toks) <= PageSize

\* the paging loop breaks on this page: it is empty, or shorter than the page size
LastPage(toks) == toks = <<>> \/ Len(toks) < PageSize

\* if token_ids: the ids are the candidates; else the paging loop starts
Select ==
    /\ pc = "select"
    /\ IF GivenIds(token_ids)
       THEN /\ to_delete' = [k \in 1..Len(token_ids) |->
                               [id |-> token_ids[k], name |-> Placeholder(token_ids[k])]]
            /\ pc' = "preview"
       ELSE /\ to_delete' = <<>>
            /\ pc' = "listing"
    /\ page' = 0
    /\ all_tokens' = <<>>
    /\ UNCHANGED <<remote, next_id, remote0, calls, i, del_prefix, keyword, token_ids,
                   dry_run, list_mode, last_len, honest, turn, deleted_ids, returned>>
    /\ UNCHANGED <<createVars, clientVars, mainVars, HEADERS>>

\* one iteration of the paging loop.  At PageCap the page counter, the accumulated
\* tokens and the call history are no longer extended.
ListStep ==
    /\ pc = "listing"
    /\ LET sent == request_headers(HEADERS, cookie, user_id, "list")
       IN \E x \in ListResponses(remote, page, PageSize, list_mode) :
         LET out == list_tokens(x.r)
             more == page < PageCap
         IN /\ turn' = 1 - turn
            /\ honest' = (honest /\ x.kind = "page" /\ list_mode = "paged")
            /\ HEADERS' = sent.HEADERS
            /\ IF out.raised
               THEN /\ pc' = "raised"
                    /\ calls' = Append(calls, [op |-> "list", acct |-> idx,
                                               cookie |-> cookie, user_id |-> user_id,
                                               headers |-> sent.headers,
                                               page |-> page,
                                               size |-> PageSize, n |-> 0])
                    /\ UNCHANGED <<last_len, all_tokens, page>>
               ELSE /\ calls' = IF more
                                 THEN Append(calls, [op |-> "list", acct |-> idx,
                                                     cookie |-> cookie,
                                                     user_id |-> user_id,
                                                     headers |-> sent.headers,
                                                     page |-> page, size |-> PageSize,
                                                     n |-> Len(out.ret)])
                                 ELSE calls
                    /\ last_len' = Len(out.ret)
                    /\ all_tokens' = IF more THEN all_tokens \o out.ret ELSE all_tokens
                    /\ IF LastPage(out.ret)
                       THEN /\ pc' = "filter"
                            /\ page' = page
                       ELSE /\ pc' = "listing"
                            /\ page' = IF more THEN page + 1 ELSE page
    /\ UNCHANGED <<remote, next_id, remote0, i, del_prefix, keyword, token_ids, dry_run,
                   list_mode, to_delete, deleted_ids, returned>>
    /\ UNCHANGED <<createVars, clientVars, mainVars>>

\* the filter over the accumulated tokens
Filter ==
    /\ pc = "filter"
    /\ to_delete' = FilterTokens(all_tokens, del_prefix, keyword)
    /\ pc' = "preview"
    /\ UNCHANGED <<remote, next_id, remote0, calls, i, del_prefix, keyword, token_ids,
                   dry_run, list_mode, page, all_tokens, last_len, honest, turn,
                   deleted_ids, returned>>
    /\ UNCHANGED <<createVars, clientVars, mainVars, HEADERS>>

\* the preview with the dry-run return lost
PreviewExit_ignores_dry(cands, dry) == IF cands = <<>> THEN "empty" ELSE "execute"

\* how the preview ends: no candidate, a dry run, or the delete loop
PreviewExit(cands, dry) ==
    IF cands = <<>> THEN "empty" ELSE IF dry THEN "dry_run" ELSE "execute"

\* no candidate: return []; dry run: return the candidates; else start deleting
Preview ==
    /\ pc = "preview"
    /\ LET exit == PreviewExit(to_delete, dry_run) IN
       /\ returned' = IF exit = "dry_run" THEN to_delete ELSE <<>>
       /\ pc' = IF exit = "execute" THEN "delete_loop" ELSE "del_done"
    /\ i' = 1
    /\ deleted_ids' = <<>>
    /\ UNCHANGED <<remote, next_id, remote0, calls, del_prefix, keyword, token_ids,
                   dry_run, list_mode, page, all_tokens, last_len, honest, turn,
                   to_delete>>
    /\ UNCHANGED <<createVars, clientVars, mainVars, HEADERS>>

\* one iteration of the delete loop: the delete call, its bookkeeping, the sleep; the
\* last iteration returns deleted_ids
DeleteStep ==
    /\ pc = "delete_loop"
    /\ i <= Len(to_delete)
    /\ LET token_id == to_delete[i].id
           sent == request_headers(HEADERS, cookie, user_id, "delete")
       IN
       \E r \in DeleteResponses(remote, token_id) :
         LET out == delete_token(r, token_id)
             call == [op |-> "delete", acct |-> idx, cookie |-> cookie,
                      user_id |-> user_id, id |-> token_id, served |-> r = DeleteOK,
                      headers |-> sent.headers,
                      ok |-> ~out.raised /\ out.ret.success]
         IN /\ HEADERS' = sent.HEADERS
            /\ remote' = IF r = DeleteOK THEN Without(remote, token_id) ELSE remote
            /\ IF out.raised
               THEN /\ pc' = "raised"
                    /\ calls' = Append(calls, call)
                    /\ UNCHANGED <<i, deleted_ids, returned>>
               ELSE /\ deleted_ids' = IF out.ret.success
                                      THEN Append(deleted_ids, token_id)
                                      ELSE deleted_ids
                    /\ calls' = Append(calls, call) \o Pace(i, Len(to_delete))
                    /\ i' = i + 1
                    /\ IF i < Len(to_delete)
                       THEN pc' = "delete_loop" /\ returned' = returned
                       ELSE pc' = "del_done" /\ returned' = deleted_ids'
    /\ UNCHANGED <<next_id, remote0, del_prefix, keyword, token_ids, dry_run, list_mode,
                   page, all_tokens, last_len, honest, turn, to_delete>>
    /\ UNCHANGED <<createVars, clientVars, mainVars>>

DeletePrefixes == {None, <<>>, <<"a", "_">>}
DeleteKeywords == {None, <<"y">>}
DeleteIds == {NoIds, <<2>>, <<3, 1>>}

\* batch_delete is invoked.  The large accounts and the stuck endpoint are there for
\* the paging loop: they come with no keyword and no ids, and the stuck endpoint with
\* a dry run.
InitDelete ==
    /\ \E n \in SmallSizes \cup BigSizes : remote = Store(n)
    /\ next_id = Len(remote) + 1
    /\ remote0 = remote
    /\ del_prefix \in DeletePrefixes
    /\ keyword \in DeleteKeywords
    /\ token_ids \in DeleteIds
    /\ dry_run \in BOOLEAN
    /\ list_mode \in {"paged", "stuck"}
    /\ Len(remote) \in BigSizes =>
          keyword = None /\ token_ids = NoIds /\ del_prefix \in {None, <<"a", "_">>}
    /\ list_mode = "stuck" => dry_run /\ token_ids = NoIds /\ keyword = None
    /\ pc = "select"
    /\ i = 1
    /\ calls = <<>>
    /\ page = 0 /\ all_tokens = <<>> /\ last_len = -1 /\ honest = TRUE /\ turn = 0
    /\ to_delete = <<>> /\ deleted_ids = <<>> /\ returned = <<>>
    /\ self_token_config = EmptyMap /\ cookie = ExampleCookie /\ user_id = ExampleUser
    /\ HEADERS = HeaderTemplate
    /\ IdleCreate /\ IdleClient /\ IdleMain

-----------------------------------------------------------------------------
(* One call of the lifecycle client, on any response of the service *)

ClientStore == Store(2)

ClientResponses ==
    {[op |-> "create", r |-> x] : x \in CreateResponses}
    \cup {[op |-> "search", r |-> x.r] : x \in SearchResponses(ClientStore, <<"_">>)}
    \cup {[op |-> "list", r |-> x.r] : x \in ListResponses(ClientStore, 0, PageSize, "paged")}
    \cup {[op |-> "delete", r |-> x] : x \in DeleteResponses(ClientStore, 1)}

\* the cookie names and values of the strings given to merge_waf_cookies: a session
\* cookie and a barrier cookie an earlier run left; a value may be empty or hold "="
CookiePairs ==
    [k : {<<"s">>, WAF_REQUIRED_COOKIES[1]}, v : {<<"1">>, <<"a", "=">>, <<>>}]

\* how a cookie string is written: "k=v;k=v", "k=v; k=v" or "k = v ; k = v"
CookieStyles == {"tight", "canonical", "spaced"}

\* the cookie string holding these pairs, written in this style
CookieString(pairs, style) ==
    LET eq == IF style = "spaced" THEN <<" ", "=", " ">> ELSE <<"=">>
        sep == CASE style = "tight" -> <<";">>
                 [] style = "canonical" -> <<";", " ">>
                 [] OTHER -> <<" ", ";", " ">>
    IN Join(sep, [j \in DOMAIN pairs |-> pairs[j].k \o eq \o pairs[j].v])

\* the cookie sets get_waf_cookies can return, in the browser's order
WafCookieSets ==
    {<<>>,
     <<[k |-> WAF_REQUIRED_COOKIES[1], v |-> <<"9">>]>>,
     <<[k |-> WAF_REQUIRED_COOKIES[2], v |-> <<"8">>],
       [k |-> WAF_REQUIRED_COOKIES[1], v |-> <<"9">>]>>}

\* the calls of merge_waf_cookies under study
MergeInputs ==
    {[op |-> "merge", pairs |-> p, style |-> st, waf |-> w] :
        p \in UNION {[1..n -> CookiePairs] : n \in 0..MaxCookies},
        st \in CookieStyles, w \in WafCookieSets}

InitClient ==
    /\ resp \in ClientResponses \cup MergeInputs
    /\ result = [op |-> "none"]
    /\ pc = "client_call"
    /\ remote = ClientStore /\ remote0 = remote /\ next_id = Len(remote) + 1
    /\ i = 1 /\ calls = <<>>
    /\ self_token_config = EmptyMap /\ cookie = ExampleCookie /\ user_id = ExampleUser
    /\ HEADERS = HeaderTemplate
    /\ IdleCreate /\ IdleDelete /\ IdleMain

ClientReturns(out) ==
    /\ result' = [op |-> resp.op, out |-> out]
    /\ pc' = "client_done"
    /\ UNCHANGED <<remote, next_id, remote0, calls, i, resp>>
    /\ UNCHANGED <<createVars, deleteVars, mainVars>>

ClientCreate ==
    /\ pc = "client_call" /\ resp.op = "create"
    /\ ClientReturns(create_token(resp.r))
    /\ HEADERS' = request_headers(HEADERS, cookie, user_id, "create").HEADERS
ClientSearch ==
    /\ pc = "client_call" /\ resp.op = "search"
    /\ ClientReturns(search_tokens(resp.r))
    /\ HEADERS' = request_headers(HEADERS, cookie, user_id, "search").HEADERS
ClientList ==
    /\ pc = "client_call" /\ resp.op = "list"
    /\ ClientReturns(list_tokens(resp.r))
    /\ HEADERS' = request_headers(HEADERS, cookie, user_id, "list").HEADERS
ClientDelete ==
    /\ pc = "client_call" /\ resp.op = "delete"
    /\ ClientReturns(delete_token(resp.r, 1))
    /\ HEADERS' = request_headers(HEADERS, cookie, user_id, "delete").HEADERS
ClientMerge ==
    /\ pc = "client_call" /\ resp.op = "merge"
    /\ ClientReturns(Return(merge_waf_cookies(CookieString(resp.pairs, resp.style), resp.waf)))
    /\ UNCHANGED HEADERS

-----------------------------------------------------------------------------
(* main: the options and the token configuration *)

\* an option that was not given
NoOption == [given |-> FALSE]

\* json.loads of a text: the document it holds, or JSONDecodeError
json_loads(text) == IF text.json THEN Return(text.doc) ELSE Raise("JSONDecodeError")

\* token_config.update(config_data)
ConfigUpdate(cfg, data) ==
    [f \in DOMAIN cfg \cup DOMAIN data |-> IF f \in DOMAIN data THEN data[f] ELSE cfg[f]]

\* the token_config literal of main
BaseConfig(a) ==
    [remain_quota |-> a.quota,
     unlimited_quota |-> a.unlimited,
     expired_time |-> NeverExpires,
     model_limits_enabled |-> FALSE,
     model_limits |-> <<>>,
     allow_ips |-> <<>>,
     group |-> <<>>]

\* token_config as main builds it: the literal, updated with --config when given
build_token_config(a) ==
    IF a.config.given
    THEN LET config_data == json_loads(a.config) IN
         IF config_data.raised THEN config_data
         ELSE Return(ConfigUpdate(BaseConfig(a), config_data.ret))
    ELSE Return(BaseConfig(a))

IsDigits(s) == s # <<>> /\ \A k \in DOMAIN s : s[k] \in Range(Digits)

DigitValue(c) == (CHOOSE k \in DOMAIN Digits : Digits[k] = c) - 1

RECURSIVE IntOf(_)
IntOf(s) == IF Len(s) = 1 THEN DigitValue(s[1])
            ELSE 10 * IntOf(SubSeq(s, 1, Len(s) - 1)) + DigitValue(s[Len(s)])

\* int(s) of a text: surrounding whitespace is ignored, anything but digits is a ValueError
py_int(s) == IF IsDigits(Strip(s)) THEN Return(IntOf(Strip(s))) ELSE Raise("ValueError")

\* parse_delete_ids that leaves out what is no number
parse_delete_ids_lenient(text) ==
    LET parts == SelectSeq(Split(text, ","), LAMBDA x : ~py_int(Strip(x)).raised)
    IN Return([k \in DOMAIN parts |-> py_int(Strip(parts[k])).ret])

\* [int(x.strip()) for x in args.delete_ids.split(",")]
parse_delete_ids(text) ==
    LET parts == Split(text, ",") IN
    IF \E k \in DOMAIN parts : py_int(Strip(parts[k])).raised THEN Raise("ValueError")
    ELSE Return([k \in DOMAIN parts |-> py_int(Strip(parts[k])).ret])

-----------------------------------------------------------------------------
(* parse_cookie_file and fetch_cookies_from_api.  An account record is a dict. *)

\* parse_line that drops the fourth field
parse_line_no_count(line) ==
    IF HasChar(line, "|")
    THEN LET parts == Split(line, "|")
             a1 == [cookie |-> parts[1]]
             a2 == IF Len(parts) > 1 THEN DictPut(a1, "user_id", parts[2]) ELSE a1
             a3 == IF Len(parts) > 2 THEN DictPut(a2, "prefix", parts[3]) ELSE a2
         IN Return(a3)
    ELSE Return([cookie |-> line])

\* a line that is no JSON document: cookie|user_id|prefix|count, or a bare cookie
parse_line(line) ==
    IF HasChar(line, "|")
    THEN LET parts == Split(line, "|")
             a1 == [cookie |-> parts[1]]
             a2 == IF Len(parts) > 1 THEN DictPut(a1, "user_id", parts[2]) ELSE a1
             a3 == IF Len(parts) > 2 THEN DictPut(a2, "prefix", parts[3]) ELSE a2
         IN IF Len(parts) > 3
            THEN LET n == py_int(parts[4]) IN
                 IF n.raised THEN n ELSE Return(DictPut(a3, "count", n.ret))
            ELSE Return(a3)
    ELSE Return([cookie |-> line])

RECURSIVE ParseLines(_)
\* the loop over content.splitlines(): blank lines and # lines are skipped, a line
\* that is a JSON document is taken as it is, any other line is parsed
ParseLines(lines) ==
    IF lines = <<>> THEN Return(<<>>)
    ELSE LET before == ParseLines(SubSeq(lines, 1, Len(lines) - 1))
             line == lines[Len(lines)]
         IN IF before.raised THEN before
            ELSE IF line.json THEN Return(Append(before.ret, json_loads(line).ret))
            ELSE IF Strip(line.text) = <<>> \/ Strip(line.text)[1] = "#" THEN before
            ELSE LET account == parse_line(Strip(line.text)) IN
                 IF account.raised THEN account
                 ELSE Return(Append(before.ret, account.ret))

\* parse_cookie_file: sys.exit(1) when the file does not exist
parse_cookie_file(file) ==
    IF ~file.exists THEN Raise("SystemExit")
    ELSE IF file.doc = "array" THEN Return(file.data)
    ELSE IF file.doc = "object" THEN Return(<<file.data>>)
    ELSE ParseLines(file.lines)

\* the name=value parts of an entry's cookies_data, those with a name and a value
CookieParts(item) ==
    LET kept == SelectSeq(item.cookies_data, LAMBDA c : c.name # <<>> /\ c.value # <<>>)
    IN [k \in DOMAIN kept |-> kept[k].name \o <<"=">> \o kept[k].value]

\* the account record made of an entry of the listing: user_id is always set, to
\* str(local_storage_data.user.id) or to None
AccountOf(item) ==
    [cookie |-> Join(<<";", " ">>, CookieParts(item)),
     user_id |-> IF item.user.t = "id" THEN Decimal(item.user.id) ELSE None,
     name |-> item.custom_name]

\* fetch_cookies_from_api: sys.exit(1) when the request fails; entries whose detection
\* failed and entries without a cookie are left out
fetch_cookies_from_api(api) ==
    IF ~api.ok THEN Raise("SystemExit")
    ELSE LET kept == SelectSeq(api.items,
                               LAMBDA item : /\ item.detection_status \notin {"error", "failed"}
                                             /\ CookieParts(item) # <<>>)
         IN Return([k \in DOMAIN kept |-> AccountOf(kept[k])])

-----------------------------------------------------------------------------
(* get_waf_cookies *)

RECURSIVE WafDict(_)
\* the loop over the browser's cookies: those of WAF_REQUIRED_COOKIES with a value
WafDict(cookies) ==
    IF cookies = <<>> THEN <<>>
    ELSE LET d == WafDict(SubSeq(cookies, 1, Len(cookies) - 1))
             c == cookies[Len(cookies)]
         IN IF c.name \in Range(WAF_REQUIRED_COOKIES) /\ c.value # None
            THEN DictSet(d, c.name, c.value)
            ELSE d

\* get_waf_cookies: None without playwright and when the visit fails; launching the
\* browser and opening the page come before the try, so their failure is raised
get_waf_cookies(browser) ==
    IF ~browser.installed THEN Return([t |-> "none"])
    ELSE IF ~browser.launches THEN Raise("Error")
    ELSE IF ~browser.loads THEN Return([t |-> "none"])
    ELSE Return([t |-> "dict", d |-> WafDict(browser.cookies)])

\* what the browser holds after the visit
BrowserCookies ==
    {<<[name |-> WAF_REQUIRED_COOKIES[1], value |-> None],
       [name |-> <<"o">>, value |-> <<"1">>]>>,
     <<[name |-> WAF_REQUIRED_COOKIES[1], value |-> <<"9">>],
       [name |-> <<"o">>, value |-> <<"1">>]>>}

\* the environment of get_waf_cookies
Browsers ==
    {[installed |-> FALSE, launches |-> FALSE, loads |-> FALSE, cookies |-> <<>>],
     [installed |-> TRUE, launches |-> FALSE, loads |-> FALSE, cookies |-> <<>>],
     [installed |-> TRUE, launches |-> TRUE, loads |-> FALSE, cookies |-> <<>>]}
    \cup {[installed |-> TRUE, launches |-> TRUE, loads |-> TRUE, cookies |-> c] :
             c \in BrowserCookies}

-----------------------------------------------------------------------------
(* main *)

\* valid_keys with the empty keys kept
valid_keys_all(records) == [k \in DOMAIN records |-> records[k].key]

\* [t["key"] for t in creator.created_tokens if t["key"]]
valid_keys(records) ==
    LET kept == SelectSeq(records, LAMBDA t : t.key # <<>>)
    IN [k \in DOMAIN kept |-> kept[k].key]

\* the two files written when creator.created_tokens is not empty
Saved(records) ==
    IF records # <<>>
    THEN [written |-> TRUE, records |-> records,
          keys |-> Join(<<"\n">>, valid_keys(records))]
    ELSE NotWritten

\* the tokens an account holds when its batch starts
AccountStore(delete) == IF delete THEN Store(2) ELSE <<>>

\* lines 689-706: the token configuration; a --config that is no JSON ends the run
MainConfig ==
    /\ pc = "main_config"
    /\ LET built == build_token_config(args) IN
       IF built.raised
       THEN pc' = "exited" /\ token_config' = token_config
       ELSE pc' = "main_accounts" /\ token_config' = built.ret
    /\ UNCHANGED <<remote, next_id, remote0, calls, i, args, source, accounts, idx,
                   waf_cookies, self_token_config, cookie, user_id, all_deleted, output,
                   batches, HEADERS>>
    /\ UNCHANGED <<createVars, deleteVars, clientVars>>

\* lines 708-718: the accounts, from the cookie API or from the file; no account ends
\* the run
MainAccounts ==
    /\ pc = "main_accounts"
    /\ LET loaded == IF source.kind = "api" THEN fetch_cookies_from_api(source)
                     ELSE parse_cookie_file(source)
       IN IF loaded.raised
          THEN /\ pc' = IF loaded.exc = "SystemExit" THEN "exited" ELSE "aborted"
               /\ accounts' = accounts
          ELSE IF loaded.ret = <<>>
          THEN pc' = "exited" /\ accounts' = loaded.ret
          ELSE pc' = "main_waf" /\ accounts' = loaded.ret
    /\ UNCHANGED <<remote, next_id, remote0, calls, i, args, source, idx, waf_cookies,
                   token_config, self_token_config, cookie, user_id, all_deleted,
                   output, batches, HEADERS>>
    /\ UNCHANGED <<createVars, deleteVars, clientVars>>

\* lines 720-730: the barrier cookies, unless --no-waf, and the TokenCreator, which
\* main constructs with an empty token_config
MainWaf ==
    /\ pc = "main_waf"
    /\ IF ~args.no_waf
       THEN \E browser \in Browsers :
              LET got == get_waf_cookies(browser) IN
              IF got.raised
              THEN /\ pc' = "aborted"
                   /\ calls' = Append(calls, [op |-> "waf", acct |-> 0, raised |-> TRUE,
                                              none |-> FALSE, got |-> <<>>])
                   /\ UNCHANGED <<waf_cookies, self_token_config, created_tokens>>
              ELSE /\ pc' = "main_mode"
                   /\ calls' = Append(calls, [op |-> "waf", acct |-> 0, raised |-> FALSE,
                                              none |-> got.ret.t = "none",
                                              got |-> IF got.ret.t = "none" THEN <<>>
                                                      ELSE got.ret.d])
                   /\ waf_cookies' = IF got.ret.t = "none" THEN <<>> ELSE got.ret.d
                   /\ self_token_config' = EmptyMap
                   /\ created_tokens' = <<>>
       ELSE /\ pc' = "main_mode"
            /\ waf_cookies' = <<>>
            /\ self_token_config' = EmptyMap
            /\ created_tokens' = <<>>
            /\ calls' = calls
    /\ UNCHANGED <<remote, next_id, remote0, i, args, source, accounts, idx, token_config,
                   cookie, user_id, all_deleted, output, batches, HEADERS>>
    /\ UNCHANGED <<prefix, count, created_names, key_map, tokens, snap>>
    /\ UNCHANGED <<deleteVars, clientVars>>

\* lines 733-743 and 776-792: in delete mode the id list, which ends the run when it
\* is no list of numbers; in create mode the token configuration once more
MainMode ==
    /\ pc = "main_mode"
    /\ IF args.delete
       THEN LET parsed == IF Given(args.delete_ids) THEN parse_delete_ids(args.delete_ids)
                          ELSE Return(NoIds)
            IN /\ IF parsed.raised
                  THEN pc' = "exited" /\ idx' = idx /\ token_ids' = token_ids
                  ELSE pc' = "main_loop" /\ idx' = 1 /\ token_ids' = parsed.ret
               /\ token_config' = token_config
       ELSE /\ token_config' = build_token_config(args).ret
            /\ pc' = "main_loop"
            /\ idx' = 1
            /\ token_ids' = token_ids
    /\ all_deleted' = <<>>
    /\ UNCHANGED <<remote, next_id, remote0, calls, i, args, source, accounts, waf_cookies,
                   self_token_config, cookie, user_id, output, batches, HEADERS>>
    /\ UNCHANGED <<del_prefix, keyword, dry_run, list_mode, page, all_tokens, last_len,
                   honest, turn, to_delete, deleted_ids, returned>>
    /\ UNCHANGED <<createVars, clientVars>>

\* lines 745-769 and 794-812: one account of the loop, up to the batch it invokes.  An
\* account without a cookie is skipped before the merge, one without a user_id after it.
MainAccount ==
    /\ pc = "main_loop"
    /\ idx <= Len(accounts)
    /\ LET account == accounts[idx]
           account_cookie == DictGet(account, "cookie", <<>>)
           account_user_id == DictGet(account, "user_id", args.user_id)
       IN IF ~Given(account_cookie)
          THEN /\ idx' = idx + 1
               /\ pc' = "main_loop"
               /\ UNCHANGED <<remote, next_id, remote0, i, cookie, user_id, waf_cookies>>
               /\ UNCHANGED <<createVars, deleteVars>>
          ELSE IF ~Given(account_user_id)
          THEN /\ waf_cookies' = waf_after_merge(account_cookie, waf_cookies)
               /\ idx' = idx + 1
               /\ pc' = "main_loop"
               /\ UNCHANGED <<remote, next_id, remote0, i, cookie, user_id>>
               /\ UNCHANGED <<createVars, deleteVars>>
          ELSE /\ cookie' = merge_waf_cookies(account_cookie, waf_cookies)
               /\ waf_cookies' = waf_after_merge(account_cookie, waf_cookies)
               /\ user_id' = account_user_id
               /\ remote' = AccountStore(args.delete)
               /\ next_id' = Len(remote') + 1
               /\ remote0' = remote'
               /\ i' = 1
               /\ idx' = idx
               /\ IF args.delete
                  THEN /\ del_prefix' = args.delete_prefix
                       /\ keyword' = args.delete_keyword
                       /\ dry_run' = args.dry_run
                       /\ list_mode' = "paged"
                       /\ page' = 0 /\ all_tokens' = <<>> /\ last_len' = -1
                       /\ honest' = TRUE /\ turn' = 0
                       /\ to_delete' = <<>> /\ deleted_ids' = <<>> /\ returned' = <<>>
                       /\ pc' = "select"
                       /\ UNCHANGED <<token_ids, createVars>>
                  ELSE /\ prefix' = DictGet(account, "prefix", args.prefix)
                       /\ count' = DictGet(account, "count", args.count)
                       /\ created_names' = <<>> /\ key_map' = EmptyMap /\ tokens' = <<>>
                       /\ pc' = AfterCreate(0, count')
                       /\ UNCHANGED <<created_tokens, snap, deleteVars>>
    /\ UNCHANGED <<calls, args, source, accounts, token_config, self_token_config,
                   all_deleted, output, batches, HEADERS>>
    /\ UNCHANGED clientVars

\* the batch returns to the loop: all_deleted.extend(deleted), and the next account
MainReturn ==
    /\ pc \in {"done", "del_done"}
    /\ idx > 0
    /\ all_deleted' = IF pc = "del_done" THEN extend(all_deleted, returned) ELSE all_deleted
    /\ batches' = IF pc = "done" THEN Append(batches, [acct |-> idx, tokens |-> tokens])
                  ELSE batches
    /\ idx' = idx + 1
    /\ pc' = "main_loop"
    /\ UNCHANGED <<remote, next_id, remote0, calls, i, args, source, accounts, waf_cookies,
                   token_config, self_token_config, cookie, user_id, output, HEADERS>>
    /\ UNCHANGED <<createVars, deleteVars, clientVars>>

\* after the last account: in create mode the records and the keys are saved
MainFinish ==
    /\ pc = "main_loop"
    /\ idx > Len(accounts)
    /\ output' = IF args.delete THEN output ELSE Saved(created_tokens)
    /\ pc' = "main_done"
    /\ UNCHANGED <<remote, next_id, remote0, calls, i, args, source, accounts, idx,
                   waf_cookies, token_config, self_token_config, cookie, user_id,
                   all_deleted, batches, HEADERS>>
    /\ UNCHANGED <<createVars, deleteVars, clientVars>>

\* --prefix default
DefaultPrefix == <<"t", "o", "k", "e", "n">>

\* --config: not given, a JSON object that sets the group, a text that is no JSON
ConfigOptions ==
    {NoOption,
     [given |-> TRUE, json |-> TRUE, doc |-> [group |-> <<"v">>]],
     [given |-> TRUE, json |-> FALSE]}

\* --delete-ids: not given, empty, and lists with and without a part that is no number
IdOptions == {None, <<>>, <<"2">>, <<"3", " ", ",", " ", "1">>, <<"2", ",", "x">>}

MainArgs ==
    [delete : BOOLEAN,
     quota : {DefaultQuota, 1000},
     unlimited : {TRUE},
     config : ConfigOptions,
     user_id : {None, <<"7">>},
     no_waf : BOOLEAN,
     delete_ids : IdOptions,
     delete_prefix : {None, <<"a", "_">>},
     delete_keyword : {None},
     dry_run : BOOLEAN,
     prefix : {DefaultPrefix},
     count : {DefaultCount}]

TextLine(s) == [json |-> FALSE, text |-> s]
JsonLine(d) == [json |-> TRUE, doc |-> d]
LinesFile(lines) == [kind |-> "file", exists |-> TRUE, doc |-> "lines", lines |-> lines]

\* no file at the path given
FileMissing == [kind |-> "file", exists |-> FALSE]

\* a file of a comment and a blank line
FileEmpty == LinesFile(<<TextLine(<<"#", " ", "c">>), TextLine(<<" ">>)>>)

\* the one line cookie|user_id|prefix|count
FilePipe == LinesFile(<<TextLine(<<"s", "=", "1", "|", "4", "2", "|", "b", "A", "|", "2">>)>>)

\* a bare cookie, a JSON line with an empty cookie, a JSON line whose user_id is null
FileMixed ==
    LinesFile(<<TextLine(<<" ", "s", "=", "1">>),
                JsonLine([cookie |-> <<>>, user_id |-> <<"5">>]),
                JsonLine([cookie |-> <<"s", "=", "3">>, user_id |-> None])>>)

\* a file that is one JSON array
FileArray ==
    [kind |-> "file", exists |-> TRUE, doc |-> "array",
     data |-> <<[cookie |-> <<"s", "=", "1">>, user_id |-> <<"4", "2">>, count |-> 1]>>]

\* three accounts, the second without a cookie: a cookie|user_id|prefix|count line
\* and two JSON lines; the third account's cookie holds a barrier cookie an earlier
\* run left
FileTwo ==
    LinesFile(<<TextLine(<<"s", "=", "1", "|", "4", "2", "|", "b", "A", "|", "1">>),
                JsonLine([cookie |-> <<>>, user_id |-> <<"6">>]),
                JsonLine([cookie |-> <<"s", "=", "2", ";", " ">> \o WAF_REQUIRED_COOKIES[1]
                                        \o <<"=", "0">>,
                          user_id |-> <<"5">>])>>)

\* the cookie API does not answer
ApiDown == [kind |-> "api", ok |-> FALSE]

\* the cookie API lists an account with a user id, one without, one whose detection
\* failed and one whose cookie has no value
ApiList ==
    [kind |-> "api", ok |-> TRUE,
     items |->
        <<[detection_status |-> "ok", custom_name |-> "n1",
           cookies_data |-> <<[name |-> <<"s">>, value |-> <<"1">>]>>,
           user |-> [t |-> "id", id |-> 42]],
          [detection_status |-> "ok", custom_name |-> "n2",
           cookies_data |-> <<[name |-> <<"s">>, value |-> <<"2">>],
                              [name |-> <<"x">>, value |-> <<>>]>>,
           user |-> Absent],
          [detection_status |-> "error", custom_name |-> "n3",
           cookies_data |-> <<[name |-> <<"s">>, value |-> <<"3">>]>>,
           user |-> Absent],
          [detection_status |-> "ok", custom_name |-> "n4",
           cookies_data |-> <<[name |-> <<"s">>, value |-> <<>>]>>,
           user |-> Absent]>>]

Sources == {FileMissing, FileEmpty, FilePipe, FileMixed, FileArray, FileTwo, ApiDown,
            ApiList}

\* main is started.  The quota and --config options are varied on the one-account
\* file, a dry run and a delete prefix without an id list; the file of three accounts
\* comes without a default user_id, and in delete mode without a dry run and with no
\* id list or the list "2".
InitMain ==
    /\ args \in MainArgs
    /\ source \in Sources
    /\ source = FileTwo =>
          /\ args.user_id = None
          /\ args.delete => args.delete_ids \in {None, <<"2">>} /\ ~args.dry_run
    /\ (args.quota # DefaultQuota \/ args.config.given) =>
          source = FileArray /\ args.user_id = None /\ args.no_waf
    /\ ~args.delete => args.delete_ids = None /\ ~args.dry_run /\ args.delete_prefix = None
    /\ args.delete_ids # None => ~args.dry_run /\ args.delete_prefix = None
    /\ pc = "main_config"
    /\ accounts = <<>> /\ idx = 0 /\ waf_cookies = <<>> /\ token_config = EmptyMap
    /\ self_token_config = EmptyMap /\ cookie = <<>> /\ user_id = None
    /\ all_deleted = <<>> /\ output = NotWritten /\ batches = <<>>
    /\ HEADERS = HeaderTemplate
    /\ remote = <<>> /\ next_id = 1 /\ remote0 = remote /\ i = 1 /\ calls = <<>>
    /\ IdleCreate /\ IdleDelete /\ IdleClient

-----------------------------------------------------------------------------
(* The specification: a run of main, one invocation of batch_create or of      *)
(* batch_delete on its own, or one call of the client or of merge_waf_cookies  *)

Init == InitCreate \/ InitDelete \/ InitClient \/ InitMain

Next ==
    \/ CreateStep
    \/ Resolve
    \/ Crash
    \/ Recover
    \/ Select
    \/ ListStep
    \/ Filter
    \/ Preview
    \/ DeleteStep
    \/ ClientCreate
    \/ ClientSearch
    \/ ClientList
    \/ ClientDelete
    \/ ClientMerge
    \/ MainConfig
    \/ MainAccounts
    \/ MainWaf
    \/ MainMode
    \/ MainAccount
    \/ MainReturn
    \/ MainFinish

Spec == Init /\ [][Next]_vars

\* the paging loop is a loop of a running process: it takes its next step
FairSpec == Spec /\ WF_vars(ListStep)

-----------------------------------------------------------------------------
(* The claims *)

Ids(s) == [k \in 1..Len(s) |-> s[k].id]
NamesOf(s) == [k \in 1..Len(s) |-> s[k].name]
InDelete == pc \in {"select", "listing", "filter", "preview", "delete_loop", "del_done"}
Selecting == pc \in {"preview", "delete_loop", "del_done"}

\* C1: a dry run of batch_delete issues no delete call and leaves the remote tokens
\* as they were; with a non-empty candidate set it returns all the candidates
C1_DryRun ==
    (InDelete /\ dry_run) =>
        /\ DeleteCalls = <<>>
        /\ remote = remote0
        /\ (pc = "del_done" /\ to_delete # <<>>) => returned = to_delete

C1_Witness ==
    /\ pc = "del_done" /\ dry_run
    /\ Len(to_delete) = 2 /\ returned = to_delete
    /\ Len(ListCalls) = 1 /\ Len(remote) = 3

\* the candidate condition as the claim words it
C2_Candidate(name) ==
    \/ Given(del_prefix) /\ StartsWith(name, del_prefix)
    \/ Given(keyword) /\ Contains(name, keyword)
    \/ ~Given(del_prefix) /\ ~Given(keyword)

\* C2: with token_ids the candidates are exactly those ids and nothing is listed;
\* otherwise the candidates are the listed tokens whose name starts with the prefix
\* given, or holds the keyword given, or all of them when neither is given
C2_Selection ==
    Selecting =>
        IF GivenIds(token_ids)
        THEN Ids(to_delete) = token_ids /\ ListCalls = <<>>
        ELSE /\ \A k \in DOMAIN all_tokens :
                  (all_tokens[k] \in Range(to_delete)) <=> C2_Candidate(all_tokens[k].name)
             /\ to_delete = SelectSeq(all_tokens, LAMBDA t : C2_Candidate(t.name))

C2_Witness ==
    /\ pc = "preview"
    /\ del_prefix = <<"a", "_">> /\ keyword = <<"y">>
    /\ Ids(all_tokens) = <<1, 2, 3>>
    /\ Ids(to_delete) = <<1, 2, 3>>

\* C3: no client call raises into the batch; batch_create ends having issued count
\* create calls and a batch_delete that is no dry run one delete call per candidate,
\* in order, whichever calls fail
C3_NeverAborts ==
    /\ pc # "raised"
    /\ result.op # "none" => ~result.out.raised
    /\ pc = "done" => Len(CreateCalls) = count
    /\ (pc = "del_done" /\ ~dry_run) => Ids(DeleteCalls) = Ids(to_delete)

C3_Witness ==
    /\ pc = "del_done" /\ ~dry_run
    /\ Len(DeleteCalls) = 3
    /\ ~DeleteCalls[1].ok /\ DeleteCalls[2].ok /\ DeleteCalls[3].ok

\* the names of the create calls that reported success, in order
C4_Created == NamesOf(SelectSeq(CreateCalls, LAMBDA c : c.ok))

\* C4: the search comes after all count create calls, once if a create succeeded and
\* never otherwise; the records are the created names in order, each with the key the
\* search returned for it, or the empty key
C4_SearchAfterCreates ==
    /\ (pc \in {"create_loop", "resolve", "done"} /\ SearchCalls # <<>>) =>
          /\ pc = "done"
          /\ Len(CreateCalls) = count
          /\ calls[Len(calls)].op = "search"
    /\ pc = "done" =>
          /\ Len(SearchCalls) = IF C4_Created # <<>> THEN 1 ELSE 0
          /\ NamesOf(tokens) = C4_Created
          /\ \A k \in DOMAIN tokens :
                tokens[k].key = KeyOf(SearchCalls[1].ret, tokens[k].name)

C4_Witness ==
    /\ pc = "done" /\ count = 2
    /\ Len(tokens) = 2
    /\ tokens[1].key # <<>> /\ tokens[2].key = <<>>

\* C5: create_token reports success exactly when the service answered 200 with
\* success: true, whatever the key fields of the body
C5_CreateSuccess ==
    (pc = "client_done" /\ result.op = "create") =>
        (result.out.ret.success <=> Served(resp.r))

\* C6: with count > 1, count create calls, each named prefix, "_" and 8 characters of
\* [a-z0-9], the names pairwise distinct, and the search keyword the prefix
C6_DistinctNames ==
    (pc = "done" /\ count > 1) =>
        /\ Len(CreateCalls) = count
        /\ \A k \in DOMAIN CreateCalls :
              LET name == CreateCalls[k].name
                  n == Len(prefix) + 1
              IN /\ Len(name) = n + SuffixLen
                 /\ SubSeq(name, 1, n) = prefix \o <<"_">>
                 /\ \A j \in (n + 1)..Len(name) : name[j] \in Range(Population)
        /\ \A j, k \in DOMAIN CreateCalls : j # k => CreateCalls[j].name # CreateCalls[k].name
        /\ \A k \in DOMAIN SearchCalls : SearchCalls[k].keyword = prefix

\* C7: with count = 1 the one token created is named "cc", whatever the prefix, and the
\* search keyword is "cc"
C7_SingleName ==
    (pc \in {"create_loop", "resolve", "done"} /\ count = 1) =>
        /\ \A k \in DOMAIN CreateCalls : CreateCalls[k].name = <<"c", "c">>
        /\ \A k \in DOMAIN SearchCalls : SearchCalls[k].keyword = <<"c", "c">>
        /\ pc = "done" => Len(CreateCalls) = 1

C7_Witness ==
    /\ pc = "done" /\ count = 1 /\ prefix = <<"t", "k">>
    /\ Len(CreateCalls) = 1 /\ Len(SearchCalls) = 1
    /\ NamesOf(tokens) = << <<"c", "c">> >>

C9_Bounded ==
    /\ (pc = "listing" /\ last_len # -1) => last_len >= PageSize
    /\ (InDelete /\ honest) => Len(ListCalls) <= (Len(remote0) \div PageSize) + 1

\* C9 (amended): the paging loop stops as soon as a page is shorter than 100, an empty
\* page included, and it terminates whenever the endpoint answers each request with
\* the page asked for or with a failure
C9_Terminates ==
    /\ []C9_Bounded
    /\ (pc = "listing" /\ list_mode = "paged") ~> (pc # "listing")

C9_Witness ==
    /\ pc = "filter" /\ honest
    /\ Len(ListCalls) = 2 /\ last_len = 0
    /\ Len(all_tokens) = PageSize

\* C9 (as claimed): the paging loop terminates for every behaviour of the endpoint
C9_TerminatesAlways == (pc = "listing") ~> (pc # "listing")

\* C10 (amended): when every page request was answered with the page asked for, the
\* tokens accumulated are the account's tokens, each once; with no prefix and no
\* keyword all of them are candidates
C10_AccumulatesAll ==
    (pc \in {"filter", "preview", "delete_loop", "del_done"}
     /\ ~GivenIds(token_ids) /\ honest) =>
        /\ all_tokens = remote0
        /\ (pc # "filter" /\ ~Given(del_prefix) /\ ~Given(keyword)) => to_delete = remote0

C10_Witness ==
    /\ pc = "preview" /\ honest
    /\ Len(ListCalls) = 2 /\ Len(remote0) = PageSize + 1
    /\ to_delete = remote0

\* C10 (as claimed): once paging stops the tokens accumulated are the account's
\* tokens, each once, whether or not a page request failed
C10_AccumulatesAlways ==
    (pc \in {"filter", "preview", "delete_loop", "del_done"}
     /\ ~GivenIds(token_ids) /\ list_mode = "paged") =>
        /\ all_tokens = remote0
        /\ (pc # "filter" /\ ~Given(del_prefix) /\ ~Given(keyword)) => to_delete = remote0

\* C11: a batch_delete that is no dry run returns the ids of the candidates whose
\* delete call reported success, in candidate order; a call reports success exactly
\* when the service answered 200 with success: true; every candidate got one call
C11_Returned ==
    (pc = "del_done" /\ ~dry_run) =>
        /\ returned = Ids(SelectSeq(DeleteCalls, LAMBDA c : c.ok))
        /\ \A k \in DOMAIN DeleteCalls : DeleteCalls[k].ok <=> DeleteCalls[k].served
        /\ Ids(DeleteCalls) = Ids(to_delete)

C11_Witness ==
    /\ pc = "del_done" /\ ~dry_run
    /\ Ids(to_delete) = <<1, 2, 3>>
    /\ ~DeleteCalls[2].ok
    /\ returned = <<1, 3>>

\* the cookie string s holds the pair k=v as one of its items, the items being
\* separated by "; "
HasPair(s, k, v) ==
    LET item == k \o <<"=">> \o v
        sep == <<";", " ">>
    IN \E o \in 0..(Len(s) - Len(item)) :
         /\ SubSeq(s, o + 1, o + Len(item)) = item
         /\ o = 0 \/ (o >= 2 /\ SubSeq(s, o - 1, o) = sep)
         /\ \/ o + Len(item) = Len(s)
            \/ /\ o + Len(item) + 2 <= Len(s)
               /\ SubSeq(s, o + Len(item) + 1, o + Len(item) + 2) = sep

\* C12: merge(A, B) holds every key of B with B's value, and every key of A that is
\* not in B with the value A gives it (the last one, when A names the key twice);
\* merge(A, {}) is A itself, the empty A included
C12_Merge ==
    (pc = "client_done" /\ result.op = "merge") =>
        LET A == resp.pairs
            B == resp.waf
            out == result.out.ret
            IsLast(j) == \A m \in DOMAIN A : m > j => A[m].k # A[j].k
        IN /\ B = <<>> => out = CookieString(A, resp.style)
           /\ \A j \in DOMAIN B : HasPair(out, B[j].k, B[j].v)
           /\ B # <<>> =>
                 \A j \in DOMAIN A :
                    (A[j].k \notin DictKeys(B) /\ IsLast(j)) => HasPair(out, A[j].k, A[j].v)

C12_Witness ==
    /\ pc = "client_done" /\ result.op = "merge"
    /\ resp.style = "spaced" /\ Len(resp.waf) = 2
    /\ resp.pairs = <<[k |-> <<"s">>, v |-> <<"a", "=">>],
                      [k |-> WAF_REQUIRED_COOKIES[1], v |-> <<"1">>]>>
    /\ HasPair(result.out.ret, <<"s">>, <<"a", "=">>)
    /\ HasPair(result.out.ret, WAF_REQUIRED_COOKIES[1], <<"9">>)

\* the search response is a success: HTTP 200 and a truthy success field
C13_Success(r) ==
    r.transport = "ok" /\ r.status = HttpOK /\ r.json /\ Truthy(Get(r.body, "success", JNull))

\* the items the search response holds
C13_Items(r) ==
    IF r.transport = "ok" /\ r.json /\ r.body.data.t = "list" THEN r.body.data.items ELSE <<>>

\* C13 (amended): search_tokens never raises; on a failure it returns the empty
\* mapping; on a success the mapping has one entry for each name of the returned
\* items that have a non-empty name and a non-empty key, from the name to "sk-"
\* followed by the key (of the last item of that name); an item without a key has no
\* entry
C13_Search ==
    (pc = "client_done" /\ result.op = "search") =>
        LET ret == result.out.ret
            keyed == SelectSeq(C13_Items(resp.r),
                               LAMBDA t : t.name # <<>> /\ t.key # <<>>)
        IN /\ ~result.out.raised
           /\ ~C13_Success(resp.r) => ret = EmptyMap
           /\ C13_Success(resp.r) =>
                 /\ DOMAIN ret = {keyed[k].name : k \in DOMAIN keyed}
                 /\ \A k \in DOMAIN keyed :
                       (\A m \in DOMAIN keyed : m > k => keyed[m].name # keyed[k].name)
                          => ret[keyed[k].name] = <<"s", "k", "-">> \o keyed[k].key

C13_Witness ==
    /\ pc = "client_done" /\ result.op = "search"
    /\ C13_Success(resp.r) /\ Len(C13_Items(resp.r)) = 2
    /\ DOMAIN result.out.ret = {ExampleName(1), ExampleName(2)}
    /\ result.out.ret[ExampleName(2)] = <<"s", "k", "-", "k", "2">>

\* C13 (as claimed): on a success the mapping has an entry for every item the service
\* returned, from its name to "sk-" followed by its key
C13_EveryItem ==
    (pc = "client_done" /\ result.op = "search") =>
        LET ret == result.out.ret
            items == C13_Items(resp.r)
        IN /\ ~result.out.raised
           /\ ~C13_Success(resp.r) => ret = EmptyMap
           /\ C13_Success(resp.r) =>
                 \A k \in DOMAIN items :
                    /\ items[k].name \in DOMAIN ret
                    /\ ret[items[k].name] = <<"s", "k", "-">> \o items[k].key

\* the calls of this kind and the sleeps of the running invocation, in the order issued
C20_Log(op) == SelectSeq(calls, LAMBDA c : c.op \in {op, "sleep"} /\ c.acct = idx)

\* a call, a sleep, a call, a sleep, ...
C20_Alternates(log, op) ==
    \A k \in DOMAIN log : log[k].op = IF k % 2 = 1 THEN op ELSE "sleep"

\* no call: no sleep; k calls: k - 1 sleeps
C20_Sleeps(k) == IF k = 0 THEN 0 ELSE k - 1

\* C20: in batch_create and in batch_delete every sleep comes after a call and before
\* the next one, and an invocation that has ended after k >= 1 calls has slept k - 1
\* times, whether the calls succeeded or failed
C20_Pacing ==
    /\ pc \in {"create_loop", "resolve", "done"} =>
          C20_Alternates(C20_Log("create"), "create")
    /\ pc \in {"resolve", "done"} =>
          Len(C20_Log("create")) = Len(CreateCalls) + C20_Sleeps(Len(CreateCalls))
    /\ pc \in {"delete_loop", "del_done"} =>
          C20_Alternates(C20_Log("delete"), "delete")
    /\ pc = "del_done" =>
          Len(C20_Log("delete")) = Len(DeleteCalls) + C20_Sleeps(Len(DeleteCalls))

C20_Witness ==
    /\ pc = "del_done" /\ Len(DeleteCalls) = 3
    /\ ~DeleteCalls[1].ok /\ ~DeleteCalls[2].ok
    /\ Len(C20_Log("delete")) = 5

\* a run of main
InMain == args # NoArgs

TokenOps == {"create", "search", "list", "delete"}

\* the token API calls of the run, and those issued for the account at index k
TokenCalls == SelectSeq(calls, LAMBDA c : c.op \in TokenOps)
CallsOf(k) == SelectSeq(calls, LAMBDA c : c.op \in TokenOps /\ c.acct = k)

\* the account record names no user: the key is left out, or its value is unset
C14_NoUserId(account) == "user_id" \notin DOMAIN account \/ ~Given(account["user_id"])

\* C14: an account with an empty cookie gets no token API call; an account whose
\* record has no user_id is processed under the default user_id when one is supplied,
\* and gets no token API call when none is
C14_Skipping ==
    InMain =>
        \A k \in DOMAIN accounts :
           k < idx =>
              LET account == accounts[k]
                  has_cookie == Given(DictGet(account, "cookie", <<>>))
              IN /\ ~has_cookie => CallsOf(k) = <<>>
                 /\ (has_cookie /\ C14_NoUserId(account) /\ Given(args.user_id)) =>
                       /\ CallsOf(k) # <<>>
                       /\ \A j \in DOMAIN CallsOf(k) : CallsOf(k)[j].user_id = args.user_id
                 /\ (has_cookie /\ C14_NoUserId(account) /\ ~Given(args.user_id)) =>
                       CallsOf(k) = <<>>

\* C15: the body of every create call of a run carries the token configuration main
\* built from the options: the defaults, with the quota option and the fields of
\* --config in their place
C15_ConfigInBody ==
    InMain =>
        \A k \in DOMAIN calls :
           calls[k].op = "create" =>
              \A f \in DOMAIN token_config : calls[k].payload[f] = token_config[f]

C16_MalformedConfig == args.config.given /\ ~args.config.json

C16_MissingFile == source.kind = "file" /\ ~source.exists

\* the source is there and holds no account
C16_NoAccounts ==
    LET loaded == IF source.kind = "api" THEN fetch_cookies_from_api(source)
                  ELSE parse_cookie_file(source)
    IN ~loaded.raised /\ loaded.ret = <<>>

\* --delete-ids is given and one of its comma-separated parts is no number
C16_MalformedIds ==
    /\ args.delete /\ Given(args.delete_ids)
    /\ \E part \in Range(Split(args.delete_ids, ",")) : ~IsDigits(Strip(part))

\* C16: once past the step that detects it, a run with a --config that is no JSON, a
\* missing file, a source without accounts or a malformed id list has ended; a run
\* ended this way has issued no create, search, list or delete call and has added nothing
\* to the records, to the deleted ids or to the output
C16_Aborts ==
    InMain =>
        /\ (C16_MalformedConfig /\ pc # "main_config") => pc = "exited"
        /\ ((C16_MissingFile \/ C16_NoAccounts)
            /\ pc \notin {"main_config", "main_accounts"}) => pc = "exited"
        /\ (C16_MalformedIds
            /\ pc \notin {"main_config", "main_accounts", "main_waf", "main_mode"}) =>
              pc \in {"exited", "aborted"}
        /\ pc = "exited" =>
              /\ TokenCalls = <<>>
              /\ created_tokens = <<>> /\ all_deleted = <<>> /\ output = NotWritten

C16_Witness ==
    /\ pc = "exited" /\ C16_MalformedIds
    /\ Len(accounts) = 2
    /\ Len(calls) = 1 /\ calls[1].op = "waf"

WafCalls == SelectSeq(calls, LAMBDA c : c.op = "waf")

\* C17: the barrier cookies are acquired at most once, before the first token API
\* call; when the acquisition fails or is skipped the run goes on with no barrier
\* cookie, and every request carries the cookie of its account record unchanged
C17_Barrier ==
    InMain =>
        /\ Len(WafCalls) <= 1
        /\ \A k \in DOMAIN calls :
              calls[k].op \in TokenOps =>
                 args.no_waf \/ \E j \in 1..(k - 1) : calls[j].op = "waf"
        /\ \A k \in DOMAIN WafCalls : WafCalls[k].raised \/ WafCalls[k].none =>
              pc # "aborted"
        /\ (args.no_waf \/ \E k \in DOMAIN WafCalls : WafCalls[k].raised \/ WafCalls[k].none) =>
              /\ waf_cookies = <<>>
              /\ \A k \in DOMAIN TokenCalls :
                    TokenCalls[k].cookie = DictGet(accounts[TokenCalls[k].acct], "cookie", <<>>)

\* a create run on the file holding the line s=1|42|bA|2 has ended
C18_Run == InMain /\ source = FilePipe /\ ~args.delete /\ pc = "main_done"

\* the create calls of that run carry the user id 42 and a name bA_ plus 8 characters
C18_Creates ==
    \A k \in DOMAIN CallsOf(1) :
       LET c == CallsOf(1)[k] IN
       /\ c.user_id = <<"4", "2">>
       /\ c.op = "create" =>
             /\ Len(c.name) = 3 + SuffixLen
             /\ SubSeq(c.name, 1, 3) = <<"b", "A", "_">>
             /\ \A j \in 4..Len(c.name) : c.name[j] \in Range(Population)
       /\ c.op = "search" => c.keyword = <<"b", "A">>

C18_Count(op) == Len(SelectSeq(CallsOf(1), LAMBDA c : c.op = op))

C18_Succeeded == Len(SelectSeq(CallsOf(1), LAMBDA c : c.op = "create" /\ c.ok))

\* C18 (amended): for the file line cookie|user_id|prefix|n with n > 1 the run issues
\* n create calls under that user_id, named prefix_ plus 8 characters; one search call
\* with the prefix as keyword when a create succeeded and none otherwise; and the
\* record set holds one record for each create that succeeded, so n records when all
\* n succeeded
C18_EndToEnd ==
    C18_Run =>
        /\ C18_Count("create") = 2
        /\ C18_Creates
        /\ C18_Count("search") = IF C18_Succeeded > 0 THEN 1 ELSE 0
        /\ Len(created_tokens) = C18_Succeeded
        /\ output.written <=> C18_Succeeded > 0
        /\ output.written => output.records = created_tokens

C18_Witness ==
    /\ C18_Run
    /\ C18_Succeeded = 2 /\ C18_Count("search") = 1
    /\ Len(output.records) = 2
    /\ output.records[2].key = <<>>
    /\ output.records[1].user_id = <<"4", "2">>

\* C18 (as claimed): n create calls, exactly one search call, n records
C18_EndToEndAlways ==
    C18_Run =>
        /\ C18_Count("create") = 2
        /\ C18_Creates
        /\ C18_Count("search") = 1
        /\ Len(created_tokens) = 2

\* the lines of the keys file
C19_Exported == IF output.keys = <<>> THEN <<>> ELSE Split(output.keys, "\n")

\* C19: every create that succeeded has its record in the run-wide record set, with
\* an empty key when the search did not resolve it; the keys file holds the non-empty
\* keys of the record set, in record order, and nothing else
C19_Export ==
    (InMain /\ ~args.delete /\ pc = "main_done") =>
        /\ NamesOf(created_tokens) =
              NamesOf(SelectSeq(calls, LAMBDA c : c.op = "create" /\ c.ok))
        /\ output.written <=> created_tokens # <<>>
        /\ output.written =>
              /\ output.records = created_tokens
              /\ C19_Exported =
                    SelectSeq([k \in DOMAIN created_tokens |-> created_tokens[k].key],
                              LAMBDA key : key # <<>>)

C19_Witness ==
    /\ InMain /\ ~args.delete /\ pc = "main_done"
    /\ Len(created_tokens) = 2
    /\ created_tokens[1].key # <<>> /\ created_tokens[2].key = <<>>
    /\ output.keys = created_tokens[1].key

-----------------------------------------------------------------------------
(* The shared tables *)

\* what main acquired: the dict get_waf_cookies returned, the empty dict otherwise
C21_Acquired == IF WafCalls = <<>> THEN <<>> ELSE WafCalls[1].got

\* C21: whatever calls were issued, for whatever accounts, HEADERS holds the entries
\* of its literal, and waf_cookies the entries main acquired
C21_Frame ==
    /\ HEADERS = HeaderTemplate
    /\ InMain => waf_cookies = C21_Acquired

C21_Witness ==
    /\ InMain /\ pc = "main_done" /\ source = FileTwo
    /\ waf_cookies # <<>>
    /\ \E j, k \in DOMAIN TokenCalls :
         /\ TokenCalls[j].acct = 1 /\ TokenCalls[j].op = "search"
         /\ TokenCalls[k].acct = 3 /\ TokenCalls[k].op = "create"
         /\ "content-type" \notin DOMAIN TokenCalls[j].headers
         /\ TokenCalls[k].headers["cookie"] # TokenCalls[j].headers["cookie"]

-----------------------------------------------------------------------------
(* The account loop *)

IsPrefix(s, t) == Len(s) <= Len(t) /\ SubSeq(t, 1, Len(s)) = s

RECURSIVE C22_Concat(_)
\* the record lists of these batches, one after the other
C22_Concat(bs) == IF bs = <<>> THEN <<>> ELSE bs[1].tokens \o C22_Concat(Tail(bs))

\* the account is not skipped: it has a cookie and a user_id
C22_Processed(k) ==
    /\ Given(DictGet(accounts[k], "cookie", <<>>))
    /\ Given(DictGet(accounts[k], "user_id", args.user_id))

\* no call of an account comes after a call of a later account
C22_InOrder ==
    \A j, k \in DOMAIN TokenCalls : j < k => TokenCalls[j].acct <= TokenCalls[k].acct

\* at the end of a create run batch_create has returned once for each account that is
\* not skipped, in the order of the accounts, and created_tokens is the lists it
\* returned, one after the other
C22_Collected ==
    (InMain /\ ~args.delete /\ pc = "main_done") =>
        /\ \A j, k \in DOMAIN batches : j < k => batches[j].acct < batches[k].acct
        /\ {batches[j].acct : j \in DOMAIN batches}
              = {k \in DOMAIN accounts : C22_Processed(k)}
        /\ created_tokens = C22_Concat(batches)

\* C22: the token API calls of a run are in the order of the accounts; created_tokens
\* only ever grows at its end; and at the end of a create run it is the concatenation,
\* in account order, of the lists batch_create returned for the accounts not skipped
C22_Sequential ==
    /\ [](InMain => C22_InOrder /\ C22_Collected)
    /\ [][IsPrefix(created_tokens, created_tokens')]_vars

C22_Witness ==
    /\ InMain /\ ~args.delete /\ pc = "main_done" /\ source = FileTwo
    /\ Len(batches) = 2
    /\ batches[1].acct = 1 /\ batches[1].tokens # <<>>
    /\ batches[2].acct = 3 /\ batches[2].tokens # <<>>
    /\ \E j, k \in DOMAIN TokenCalls : TokenCalls[j].acct = 1 /\ TokenCalls[k].acct = 3

-----------------------------------------------------------------------------
(* The keys recorded *)

\* the tokens this invocation of batch_create created on the remote service
C23_Own == SelectSeq(remote, LAMBDA t : t.id > Len(remote0))

\* C23: every non-empty key batch_create records for a name is the secret of a token
\* of that name which this invocation created, whatever the account held before
C23_OwnKeys ==
    pc = "done" =>
        \A k \in DOMAIN tokens :
            tokens[k].key # <<>> =>
                \E j \in DOMAIN C23_Own :
                    /\ C23_Own[j].name = tokens[k].name
                    /\ tokens[k].key = <<"s", "k", "-">> \o C23_Own[j].key

-----------------------------------------------------------------------------
(* The session of a request *)

\* the field of an account record, or the run-wide default
C24_Field(account, key, default) == IF key \in DOMAIN account THEN account[key] ELSE default

\* the request carries this cookie and this user id, each in its header
C24_Carries(c, ck, uid) ==
    /\ {"cookie", "new-api-user"} \subseteq DOMAIN c.headers
    /\ c.headers["cookie"] = [text |-> ck]
    /\ c.headers["new-api-user"] = [text |-> uid]

\* C24: every create, search, list and delete request issued for account i carries the
\* cookie of account i merged with the barrier cookies and the user_id of account i,
\* the run-wide default when the record has none
C24_Isolation ==
    InMain =>
        \A k \in DOMAIN TokenCalls :
            LET c == TokenCalls[k] IN
            /\ c.acct \in DOMAIN accounts
            /\ C24_Carries(c,
                           merge_waf_cookies(C24_Field(accounts[c.acct], "cookie", <<>>),
                                             C21_Acquired),
                           C24_Field(accounts[c.acct], "user_id", args.user_id))

C24_Witness ==
    /\ InMain /\ args.delete /\ pc = "main_done" /\ source = FileTwo
    /\ waf_cookies # <<>>
    /\ \E j, k \in DOMAIN TokenCalls :
         /\ TokenCalls[j].acct = 1 /\ TokenCalls[j].op = "list"
         /\ TokenCalls[k].acct = 3 /\ TokenCalls[k].op = "delete"
         /\ TokenCalls[j].headers["cookie"] # TokenCalls[k].headers["cookie"]
         /\ TokenCalls[j].headers["new-api-user"] # TokenCalls[k].headers["new-api-user"]

-----------------------------------------------------------------------------
(* merge_waf_cookies applied to its own result *)

\* the keys of a cookie string, in the order the string names them
C25_Keys(s) ==
    LET d == ParseParts(Split(s, ";")) IN [j \in DOMAIN d |-> d[j].k]

RECURSIVE C25_Distinct(_)
\* the keys of a sequence, each at the place of its first occurrence
C25_Distinct(ks) ==
    IF ks = <<>> THEN <<>>
    ELSE LET front == C25_Distinct(SubSeq(ks, 1, Len(ks) - 1))
             last == ks[Len(ks)]
         IN IF last \in Range(front) THEN front ELSE Append(front, last)

\* C25: for a non-empty barrier set B, merging B into merge(A, B) gives merge(A, B)
\* again; and merge(A, B) names the keys of A in the order A names them, then the
\* keys only B has, in the order of B
C25_Idempotent ==
    (pc = "client_done" /\ result.op = "merge" /\ resp.waf # <<>>) =>
        LET A == resp.pairs
            B == resp.waf
            out == result.out.ret
        IN /\ merge_waf_cookies(out, B) = out
           /\ C25_Keys(out) = C25_Distinct([j \in DOMAIN A |-> A[j].k]
                                           \o [j \in DOMAIN B |-> B[j].k])

C25_Witness ==
    /\ pc = "client_done" /\ result.op = "merge"
    /\ resp.style = "spaced" /\ Len(resp.waf) = 2
    /\ resp.pairs = <<[k |-> WAF_REQUIRED_COOKIES[1], v |-> <<"1">>],
                      [k |-> <<"s">>, v |-> <<"a", "=">>]>>
    /\ C25_Keys(result.out.ret)
          = <<WAF_REQUIRED_COOKIES[1], <<"s">>, WAF_REQUIRED_COOKIES[2]>>
    /\ result.out.ret # CookieString(resp.pairs, resp.style)

=============================================================================
